---- MODULE Spec2Model ----
(***************************************************************************)
(* nanoproxy: a local forward proxy.  These state machines are modelled:   *)
(*                                                                         *)
(*   SpecPac  PacProxyResolver (adapters/pac_resolver/resolver.rs): the    *)
(*            active PAC URL and the PAC script cache under concurrent     *)
(*            resolve_route / resolve_all_routes / update_pac_url calls.   *)
(*   Spec     the dispatcher: HyperProxyAdapter, ProxyService, the two     *)
(*            HttpClientPort adapters, HyperConnector and the connection   *)
(*            tracker, one client connection after the other, each with    *)
(*            its spawned tunnel task running in the background.           *)
(*   SpecDial HyperConnector::call on its own, over any route list.        *)
(*   SpecGateway, SpecResolvConf, SpecBeacon                               *)
(*            the network detectors (adapters/pac_resolver/gateway.rs,     *)
(*            resolvconf.rs, beacon.rs), each with the resolver whose PAC  *)
(*            URL it updates.                                              *)
(*   SpecCreds ProxyService::get_credentials_for_route and the             *)
(*            CredentialProvider (adapters/credentials/provider.rs).       *)
(*   SpecFind, SpecProvider, SpecNew                                       *)
(*            CredentialProvider: find_credentials_for_host on any host,   *)
(*            get_credentials / clear_cache under two concurrent callers,  *)
(*            and CredentialProvider::new on any rule list.                *)
(*   SpecTracker                                                           *)
(*            ConnectionTracker (adapters/tracking/tracker.rs) with its    *)
(*            clock and its 250 ms sweep.                                  *)
(*   SpecEval evaluate_pac's parsing of the FindProxyForURL result and     *)
(*            parse_proxy_route (adapters/pac_resolver/pac_evaluator.rs).  *)
(*   SpecPacLive                                                           *)
(*            PacProxyResolver with the queue of its pac_url lock, under   *)
(*            a fair scheduler.                                            *)
(*   SpecGatewayPort, SpecResolvConfHooks                                  *)
(*            GatewayListener and ResolvConfListener with rules that have  *)
(*            when_match / when_no_match commands; the gateway on a        *)
(*            resolver port whose update_pac_url may return an error.      *)
(*   SpecDetectors                                                         *)
(*            GatewayListener and BeaconPoller on the same resolver.       *)
(*   SpecHyperClients                                                      *)
(*            HyperHttpClient::execute called concurrently for requests    *)
(*            to the same URI, with the connector's shared route cache.    *)
(***************************************************************************)
EXTENDS Integers, Sequences, FiniteSets, TLC

(***************************************************************************)
(* Bounds of the model and program constants.                              *)
(***************************************************************************)
\* number of update_pac_url calls in one behaviour
MaxUpdates == 3
\* capacity of the PAC script LruCache (resolver.rs:23)
CacheCap == 5

\* longest route list the resolver returns to the dispatcher
MaxRoutes == 2
\* longest route list dialled by a connector call on its own
MaxDialRoutes == 3
\* number of client connections accepted in one behaviour
MaxConns == 2

\* longest rule list of a detector
MaxRules == 2
\* refreshes a detector makes in one behaviour
MaxTicks == 3
\* nameserver lines of /etc/resolv.conf
MaxNs == 2
\* get_credentials_for_route calls in one behaviour
MaxCredCalls == 3
\* longest host find_credentials_for_host is checked on, in labels and dots
MaxHostLen == 4
\* rules given to CredentialProvider::new
MaxAuthRules == 2
\* longest output of a password command, in characters
MaxOutLen == 2
\* longest FindProxyForURL result evaluate_pac is checked on, in words,
\* separators and quotes
MaxPacLen == 5
\* connections tracked in one behaviour of the tracker
MaxTracked == 2
\* how far the tracker's clock runs, in sweep periods
MaxClock == 17

None == "none"

(***************************************************************************)
(* PacProxyResolver                                                        *)
(***************************************************************************)
\* PAC URLs the detectors can push, script texts a PAC server can serve
PacUrls == {"pacA", "pacB"}
Texts == {"script1", "script2"}
\* tasks calling resolve_route / resolve_all_routes, tasks calling update_pac_url
Resolvers == {"r1", "r2"}
Updaters == {"u1", "u2"}

VARIABLES
    pac_url,      \* PacProxyResolver.pac_url: None or a PAC URL
    pac_cache,    \* PacProxyResolver.pac_cache: LRU, most recently used first
    url_readers,  \* tasks holding a read guard of the pac_url RwLock
    url_writer,   \* task holding the write guard of the pac_url RwLock, or None
    rpc,          \* position of each resolving task
    rkind,        \* "route" (resolve_route) or "all" (resolve_all_routes)
    rurl,         \* the pac_url the task read under its guard
    rtext,        \* the script text the task holds: [value, epoch]
    rhit,         \* TRUE when rtext came from the cache
    rout,         \* result of the call: the route (resolve_route), the routes
                  \* (resolve_all_routes) or the error, as a list
    upc,          \* position of each updating task
    uarg,         \* argument of the update_pac_url call in progress
    epoch,        \* history: number of pac_url assignments made so far
    looked,       \* history: a cache lookup happened since the last update
    first_hit,    \* history: the first lookup after some update was a hit
    cleared       \* history: the last update cleared a populated cache

pacVars == <<pac_url, pac_cache, url_readers, url_writer, rpc, rkind, rurl,
             rtext, rhit, rout, upc, uarg, epoch, looked, first_hit, cleared>>

(***************************************************************************)
(* Dispatcher state                                                        *)
(***************************************************************************)
VARIABLES
    http_client,   \* the HttpClientPort wired in: "reqwest" or "hyper"
    up,            \* endpoints that accept a TCP connection within the timeout
    pac_routes,    \* the route list the resolver port yields for the target
    route_cache,   \* HyperConnector.route_cache: URI key -> route
    connections,   \* ConnectionTracker.connections
    next_id,       \* the next connection (its ConnectionInfo id)
    hpc,           \* position of the handler of the connection being served
    hreq,          \* the request being handled
    hconn,         \* the connection being handled
    hroute,        \* route resolved by the service
    hcreds,        \* credentials looked up by the service
    hstatus,       \* status of the upstream reply held by the handler
    resp,          \* what each client has been sent: [status, body]
    tpc,           \* position of each connection's spawned tunnel task
    dial,          \* the HyperConnector call in progress for each connection
    conn_method,   \* history: "http" or "connect" once the target URL is known
    events,        \* history: per connection, the route resolution and the
                   \* tracker and http-client calls made for it
    via,           \* history: the route over which the reply was obtained
    upstream_open  \* history: the upstream answered the proxy's CONNECT with 2xx

dispVars == <<http_client, up, pac_routes, route_cache, connections,
              next_id, hpc, hreq, hconn, hroute, hcreds, hstatus, resp, tpc,
              dial, conn_method, events, via, upstream_open>>

(***************************************************************************)
(* Network detectors: GatewayListener, ResolvConfListener, BeaconPoller    *)
(***************************************************************************)
VARIABLES
    gw_rules,     \* GatewayListener.rules
    gw_pc,        \* position of the gateway task
    gw_iface,     \* the default interface found by the refresh in progress
    gw_idx,       \* index of the rule the loop is at
    gw_new,       \* new_pac_url of the refresh in progress
    gw_matched,   \* matched_rule_index of the refresh in progress, 0 if none
    gw_last,      \* last_pac_url of the task
    gw_ticks,     \* history: refreshes that have returned
    gw_computed,  \* history: refreshes that got as far as comparing the PAC
                  \* URL they computed with last_pac_url
    gw_calls,     \* history: update_pac_url calls made by the task
    gw_prev,      \* history: the PAC URL computed by the previous refresh
    gw_changes,   \* history: refreshes whose computed PAC URL differed from
                  \* the one computed before (null before the first)
    gw_ran,       \* history: the when_match / when_no_match commands run by
                  \* the refresh in progress or last finished
    gw_failed,    \* history: the PAC URL whose update_pac_url call returned
                  \* an error in the refresh last finished, NoFail otherwise
    rc_rules,     \* ResolvConfListener.rules
    rc_pc,        \* position of the resolv.conf task
    rc_ns,        \* nameservers of the configuration read by the refresh
    rc_i,         \* index of the nameserver the outer loop is at
    rc_j,         \* index of the rule the inner loop is at
    rc_matched,   \* `matched` of the refresh in progress
    rc_events,    \* history: refreshes that have returned
    rc_pushed,    \* history: arguments of the update_pac_url calls of the
                  \* refresh in progress or last finished
    rc_prev,      \* history: the argument of the update_pac_url call before
                  \* the refresh started, "never" if there was none
    rc_failed,    \* history: the last refresh returned an error
    rc_ran,       \* history: the when_match / when_no_match commands run by
                  \* the refresh in progress or last finished, in order
    bc_rules,     \* BeaconPoller.rules
    bc_pc,        \* position of the beacon task
    bc_ticks,     \* history: ticks handled
    bc_last,      \* history: argument of its previous update_pac_url call
    bc_repeat     \* history: a call repeated the argument of the previous one

detVars == <<gw_rules, gw_pc, gw_iface, gw_idx, gw_new, gw_matched, gw_last,
             gw_ticks, gw_computed, gw_calls, gw_prev, gw_changes, gw_ran,
             gw_failed,
             rc_rules, rc_pc, rc_ns, rc_i, rc_j, rc_matched, rc_events,
             rc_pushed, rc_prev, rc_failed, rc_ran,
             bc_rules, bc_pc, bc_ticks, bc_last, bc_repeat>>

(***************************************************************************)
(* CredentialProvider and ProxyService::get_credentials_for_route          *)
(***************************************************************************)
VARIABLES
    cr_rules,     \* CredentialProvider.rules: the remote patterns with a rule
    cr_cache,     \* CredentialProvider.cache: LRU of host -> Option<Credentials>
    cr_pc,        \* position of the get_credentials_for_route call
    cr_route,     \* the route of the call
    cr_host,      \* the host get_credentials was called with
    cr_key,       \* the host find_credentials_for_host is at
    cr_result,    \* result of the call
    cr_calls,     \* history: calls made
    cr_asked,     \* history: hosts the provider was asked for by the call
    cr_tried      \* history: keys looked up in the rules by the call

credVars == <<cr_rules, cr_cache, cr_pc, cr_route, cr_host, cr_key, cr_result,
              cr_calls, cr_asked, cr_tried>>

(***************************************************************************)
(* CredentialProvider under concurrent callers, CredentialProvider::new,   *)
(* ConnectionTracker with its clock, evaluate_pac / parse_proxy_route,     *)
(* the CONNECT request of a tunnel, concurrent HyperHttpClient::execute    *)
(***************************************************************************)
VARIABLES
    pv_pc,        \* position of each task calling the credential provider
    pv_via,       \* the function the task called
    pv_host,      \* the host of the call
    pv_key,       \* the host find_credentials_for_host is at
    pv_result,    \* result of the call
    pv_tried,     \* history: the hosts the recursion was called with
    np_rules,     \* auth_rules handed to CredentialProvider::new
    np_idx,       \* index of the rule the loop of new is at
    np_map,       \* rules_map of new: the patterns inserted, with passwords
    np_state,     \* "building", "ready" or "panicked"
    tk_conns,     \* ConnectionTracker.connections, with closed_at
    tk_now,       \* the clock, in sweep periods
    tk_next_id,   \* history: number of records tracked so far
    tk_swept,     \* whether the sweep of this period has run
    tk_last,      \* history: the last tracker call made
    tk_active,    \* result of the last get_active_connections call
    ev_pc,        \* position of the resolve_with_pac call
    ev_input,     \* the string FindProxyForURL returned
    ev_urls,      \* result of evaluate_pac
    ev_routes,    \* result of resolve_with_pac
    auth_for,     \* per connection: the route whose proxy the credentials in
                  \* the Proxy-Authorization header of the tunnel's CONNECT
                  \* request were looked up for; None without the header,
                  \* and once client.request has failed or the reply to the
                  \* request has been handled
    hx_pc,        \* position of each task in HyperHttpClient::execute
    hx_route,     \* the route each execute call was given
    hx_src        \* history: where the connector call of each task got its
                  \* routes from, "cache" or "resolver"

pvVars == <<pv_pc, pv_via, pv_host, pv_key, pv_result, pv_tried>>
npVars == <<np_rules, np_idx, np_map, np_state>>
tkVars == <<tk_conns, tk_now, tk_next_id, tk_swept, tk_last, tk_active>>
evVars == <<ev_pc, ev_input, ev_urls, ev_routes>>
cxVars == <<auth_for, hx_pc, hx_route, hx_src>>
auxVars == <<pvVars, npVars, tkVars, evVars, cxVars>>

vars == <<pacVars, dispVars, detVars, credVars, auxVars>>

\* ---- lru::LruCache<String, String> as used by the resolver ----
RECURSIVE LruIndex(_, _, _)
LruIndex(c, k, i) ==
    IF i > Len(c) THEN 0
    ELSE IF c[i].key = k THEN i ELSE LruIndex(c, k, i + 1)

LruContains(c, k) == LruIndex(c, k, 1) # 0

LruWithout(c, k) == SelectSeq(c, LAMBDA e : e.key # k)

\* cache.get(k): the entry, moved to the most-recently-used position
LruEntry(c, k) == c[LruIndex(c, k, 1)]
LruTouch(c, k) == <<LruEntry(c, k)>> \o LruWithout(c, k)

\* cache.put(k, v): replaces the entry of k, evicts the least recently used
LruPut(c, e) ==
    LET n == <<e>> \o LruWithout(c, e.key)
    IN  IF Len(n) > CacheCap THEN SubSeq(n, 1, CacheCap) ELSE n

\* cache.clear()
LruClearKeep(c) == c
LruClear(c) == <<>>

\* ---- evaluate_pac + parse_proxy_route on a script text ----
PacResult(text) ==
    CASE text = "script1" -> <<"Direct">>
      [] text = "script2" -> <<"Up1", "Direct">>
      [] OTHER -> <<"Direct">>

\* a task holding no script text, a call with no result yet
NoText == [value |-> None, epoch |-> 0]
NoOut == <<>>

InitPac ==
    /\ pac_url = None
    /\ pac_cache = <<>>
    /\ url_readers = {}
    /\ url_writer = None
    /\ rpc = [t \in Resolvers |-> "idle"]
    /\ rkind = [t \in Resolvers |-> None]
    /\ rurl = [t \in Resolvers |-> None]
    /\ rtext = [t \in Resolvers |-> NoText]
    /\ rhit = [t \in Resolvers |-> FALSE]
    /\ rout = [t \in Resolvers |-> NoOut]
    /\ upc = [u \in Updaters |-> "idle"]
    /\ uarg = [u \in Updaters |-> None]
    /\ epoch = 0
    /\ looked = FALSE
    /\ first_hit = FALSE
    /\ cleared = FALSE

\* a task calls resolve_route or resolve_all_routes
RStartOf(t, kinds) ==
    /\ rpc[t] = "idle"
    /\ \E k \in kinds : rkind' = [rkind EXCEPT ![t] = k]
    /\ rpc' = [rpc EXCEPT ![t] = "read_url"]
    /\ rurl' = [rurl EXCEPT ![t] = None]
    /\ rtext' = [rtext EXCEPT ![t] = NoText]
    /\ rhit' = [rhit EXCEPT ![t] = FALSE]
    /\ rout' = [rout EXCEPT ![t] = NoOut]
    /\ UNCHANGED <<pac_url, pac_cache, url_readers, url_writer, upc, uarg,
                   epoch, looked, first_hit, cleared>>
    /\ UNCHANGED <<dispVars, detVars, credVars, auxVars>>

RStart(t) == RStartOf(t, {"route", "all"})

\* the guard a resolving task holds while it works: held from pac_url.read()
\* to the end of the call
HoldsGuardKeep(t, readers) == readers
HoldsGuard(t, readers) == readers \cup {t}

\* self.pac_url.read().await and the match on it: None is Direct at once,
\* Some(url) goes on to resolve_with_pac.  The lock is tokio's RwLock, which
\* is fair and write-preferring: a writer that is queued keeps new readers
\* out
RReadUrlAlwaysLoad(t) ==
    /\ rpc[t] = "read_url"
    /\ url_writer = None
    /\ \A u \in Updaters : upc[u] # "waiting"
    /\ rurl' = [rurl EXCEPT ![t] = pac_url]
    /\ url_readers' = HoldsGuard(t, url_readers)
    /\ rpc' = [rpc EXCEPT ![t] = "lookup"]
    /\ UNCHANGED <<pac_url, pac_cache, url_writer, rkind, rtext, rhit, rout,
                   upc, uarg, epoch, looked, first_hit, cleared>>
    /\ UNCHANGED <<dispVars, detVars, credVars, auxVars>>
RReadUrl(t) ==
    /\ rpc[t] = "read_url"
    /\ url_writer = None
    /\ \A u \in Updaters : upc[u] # "waiting"
    /\ rurl' = [rurl EXCEPT ![t] = pac_url]
    /\ IF pac_url = None
       THEN /\ rout' = [rout EXCEPT ![t] = <<"Direct">>]
            /\ rpc' = [rpc EXCEPT ![t] = "done"]
            /\ UNCHANGED url_readers
       ELSE /\ url_readers' = HoldsGuard(t, url_readers)
            /\ rpc' = [rpc EXCEPT ![t] = "lookup"]
            /\ UNCHANGED rout
    /\ UNCHANGED <<pac_url, pac_cache, url_writer, rkind, rtext, rhit, upc,
                   uarg, epoch, looked, first_hit, cleared>>
    /\ UNCHANGED <<dispVars, detVars, credVars, auxVars>>

\* get_pac_file: the cache lookup (the cache lock is taken and released
\* without a suspension point in between)
RLookupRelock(t) ==
    /\ rpc[t] = "lookup"
    /\ url_writer = None
    /\ \A u \in Updaters : upc[u] # "waiting"
    /\ LET hit == LruContains(pac_cache, rurl[t])
       IN  /\ looked' = TRUE
           /\ first_hit' = (first_hit \/ (~looked /\ epoch > 0 /\ hit))
           /\ IF hit
              THEN /\ rtext' = [rtext EXCEPT ![t] =
                         [value |-> LruEntry(pac_cache, rurl[t]).value,
                          epoch |-> LruEntry(pac_cache, rurl[t]).epoch]]
                   /\ rhit' = [rhit EXCEPT ![t] = TRUE]
                   /\ pac_cache' = LruTouch(pac_cache, rurl[t])
                   /\ rpc' = [rpc EXCEPT ![t] = "evaluate"]
              ELSE /\ rpc' = [rpc EXCEPT ![t] = "fetch"]
                   /\ UNCHANGED <<rtext, rhit, pac_cache>>
    /\ UNCHANGED <<pac_url, url_readers, url_writer, rkind, rurl, rout, upc,
                   uarg, epoch, cleared>>
    /\ UNCHANGED <<dispVars, detVars, credVars, auxVars>>
RLookup(t) ==
    /\ rpc[t] = "lookup"
    /\ LET hit == LruContains(pac_cache, rurl[t])
       IN  /\ looked' = TRUE
           /\ first_hit' = (first_hit \/ (~looked /\ epoch > 0 /\ hit))
           /\ IF hit
              THEN /\ rtext' = [rtext EXCEPT ![t] =
                         [value |-> LruEntry(pac_cache, rurl[t]).value,
                          epoch |-> LruEntry(pac_cache, rurl[t]).epoch]]
                   /\ rhit' = [rhit EXCEPT ![t] = TRUE]
                   /\ pac_cache' = LruTouch(pac_cache, rurl[t])
                   /\ rpc' = [rpc EXCEPT ![t] = "evaluate"]
              ELSE /\ rpc' = [rpc EXCEPT ![t] = "fetch"]
                   /\ UNCHANGED <<rtext, rhit, pac_cache>>
    /\ UNCHANGED <<pac_url, url_readers, url_writer, rkind, rurl, rout, upc,
                   uarg, epoch, cleared>>
    /\ UNCHANGED <<dispVars, detVars, credVars, auxVars>>

\* load_pac: the HTTP GET of the PAC file, which may fail; the `?` returns
\* the error before cache.put
RFetchCachesFailure(t) ==
    /\ rpc[t] = "fetch"
    /\ \/ /\ \E x \in Texts :
                rtext' = [rtext EXCEPT ![t] = [value |-> x, epoch |-> epoch]]
          /\ rpc' = [rpc EXCEPT ![t] = "put"]
          /\ UNCHANGED <<rout, url_readers, pac_cache>>
       \/ /\ rout' = [rout EXCEPT ![t] = <<"ResolutionFailed">>]
          /\ url_readers' = url_readers \ {t}
          /\ rpc' = [rpc EXCEPT ![t] = "done"]
          /\ pac_cache' = LruPut(pac_cache,
                                 [key |-> rurl[t], value |-> "script1",
                                  epoch |-> epoch])
          /\ UNCHANGED rtext
    /\ UNCHANGED <<pac_url, url_writer, rkind, rurl, rhit, upc,
                   uarg, epoch, looked, first_hit, cleared>>
    /\ UNCHANGED <<dispVars, detVars, credVars, auxVars>>
RFetch(t) ==
    /\ rpc[t] = "fetch"
    /\ \/ /\ \E x \in Texts :
                rtext' = [rtext EXCEPT ![t] = [value |-> x, epoch |-> epoch]]
          /\ rpc' = [rpc EXCEPT ![t] = "put"]
          /\ UNCHANGED <<rout, url_readers>>
       \/ /\ rout' = [rout EXCEPT ![t] = <<"ResolutionFailed">>]
          /\ url_readers' = url_readers \ {t}
          /\ rpc' = [rpc EXCEPT ![t] = "done"]
          /\ UNCHANGED rtext
    /\ UNCHANGED <<pac_url, pac_cache, url_writer, rkind, rurl, rhit, upc,
                   uarg, epoch, looked, first_hit, cleared>>
    /\ UNCHANGED <<dispVars, detVars, credVars, auxVars>>

\* load_pac: cache.put(pac_url, pac_file)
RPut(t) ==
    /\ rpc[t] = "put"
    /\ rtext' = [rtext EXCEPT ![t] = [value |-> rtext[t].value, epoch |-> epoch]]
    /\ pac_cache' = LruPut(pac_cache,
                           [key |-> rurl[t], value |-> rtext[t].value,
                            epoch |-> epoch])
    /\ rpc' = [rpc EXCEPT ![t] = "evaluate"]
    /\ UNCHANGED <<pac_url, url_readers, url_writer, rkind, rurl, rhit, rout,
                   upc, uarg, epoch, looked, first_hit, cleared>>
    /\ UNCHANGED <<dispVars, detVars, credVars, auxVars>>

\* resolve_with_pac: evaluate the script, map to routes; the call returns and
\* drops its guard
REvaluate(t) ==
    /\ rpc[t] = "evaluate"
    /\ rout' = [rout EXCEPT ![t] =
                  IF rkind[t] = "route"
                  THEN <<Head(PacResult(rtext[t].value))>>
                  ELSE PacResult(rtext[t].value)]
    /\ url_readers' = url_readers \ {t}
    /\ rpc' = [rpc EXCEPT ![t] = "done"]
    /\ UNCHANGED <<pac_url, pac_cache, url_writer, rkind, rurl, rtext, rhit,
                   upc, uarg, epoch, looked, first_hit, cleared>>
    /\ UNCHANGED <<dispVars, detVars, credVars, auxVars>>

\* the caller takes the result
RReturn(t) ==
    /\ rpc[t] = "done"
    /\ rpc' = [rpc EXCEPT ![t] = "idle"]
    /\ rkind' = [rkind EXCEPT ![t] = None]
    /\ rurl' = [rurl EXCEPT ![t] = None]
    /\ rtext' = [rtext EXCEPT ![t] = NoText]
    /\ rhit' = [rhit EXCEPT ![t] = FALSE]
    /\ rout' = [rout EXCEPT ![t] = NoOut]
    /\ UNCHANGED <<pac_url, pac_cache, url_readers, url_writer, upc, uarg,
                   epoch, looked, first_hit, cleared>>
    /\ UNCHANGED <<dispVars, detVars, credVars, auxVars>>

\* a detector calls update_pac_url(x)
UStart(u) ==
    /\ upc[u] = "idle"
    /\ epoch + Cardinality({v \in Updaters : upc[v] \in {"write_url", "waiting"}})
          < MaxUpdates
    /\ \E x \in PacUrls \cup {None} : uarg' = [uarg EXCEPT ![u] = x]
    /\ upc' = [upc EXCEPT ![u] = "write_url"]
    /\ UNCHANGED <<pac_url, pac_cache, url_readers, url_writer, rpc, rkind,
                   rurl, rtext, rhit, rout, epoch, looked, first_hit, cleared>>
    /\ UNCHANGED <<dispVars, detVars, credVars, auxVars>>

\* self.pac_url.write().await finds the lock taken: the task is queued
UQueue(u) ==
    /\ upc[u] = "write_url"
    /\ url_writer # None \/ url_readers # {}
    /\ upc' = [upc EXCEPT ![u] = "waiting"]
    /\ UNCHANGED <<pac_url, pac_cache, url_readers, url_writer, rpc, rkind,
                   rurl, rtext, rhit, rout, uarg, epoch, looked, first_hit,
                   cleared>>
    /\ UNCHANGED <<dispVars, detVars, credVars, auxVars>>

\* self.pac_url.write().await; *url_guard = pac_url
UWriteUrlNoWait(u) ==
    /\ upc[u] \in {"write_url", "waiting"}
    /\ url_writer = None
    /\ url_writer' = u
    /\ pac_url' = uarg[u]
    /\ epoch' = epoch + 1
    /\ upc' = [upc EXCEPT ![u] = "clear"]
    /\ UNCHANGED <<pac_cache, url_readers, rpc, rkind, rurl, rtext, rhit,
                   rout, uarg, looked, first_hit, cleared>>
    /\ UNCHANGED <<dispVars, detVars, credVars, auxVars>>
UWriteUrl(u) ==
    /\ upc[u] \in {"write_url", "waiting"}
    /\ url_writer = None
    /\ url_readers = {}
    /\ url_writer' = u
    /\ pac_url' = uarg[u]
    /\ epoch' = epoch + 1
    /\ upc' = [upc EXCEPT ![u] = "clear"]
    /\ UNCHANGED <<pac_cache, url_readers, rpc, rkind, rurl, rtext, rhit,
                   rout, uarg, looked, first_hit, cleared>>
    /\ UNCHANGED <<dispVars, detVars, credVars, auxVars>>

\* self.pac_cache.write().await; cache.clear(); both guards dropped
UClear(u) ==
    /\ upc[u] = "clear"
    /\ pac_cache' = LruClear(pac_cache)
    /\ cleared' = (pac_cache # <<>>)
    /\ looked' = FALSE
    /\ url_writer' = None
    /\ upc' = [upc EXCEPT ![u] = "idle"]
    /\ uarg' = [uarg EXCEPT ![u] = None]
    /\ UNCHANGED <<pac_url, url_readers, rpc, rkind, rurl, rtext, rhit, rout,
                   epoch, first_hit>>
    /\ UNCHANGED <<dispVars, detVars, credVars, auxVars>>

(***************************************************************************)
(* Dispatcher: HyperProxyAdapter, ProxyService, HttpClientPort adapters,   *)
(* HyperConnector, ConnectionTracker                                       *)
(***************************************************************************)
Routes == {"Direct", "Up1", "Up2", "Blocked"}
Endpoints == {"target", "proxy1", "proxy2"}
Conns == 1 .. MaxConns
\* statuses an origin or upstream answers a forwarded request with
Statuses == {200, 404}
\* keys of the connector's route cache: the URI of a plain request to the
\* target and the URI the client hands the connector for a CONNECT to it
HttpKey == "http://target/"
ConnectKey == "http://target:443/"
UriKeys == {HttpKey, ConnectKey}

\* the routes and endpoints of the dispatcher's environment
DispRoutes == {"Direct", "Up1", "Blocked"}
DispEndpoints == {"target", "proxy1"}

RouteLists(R, n) == UNION {[1 .. k -> R] : k \in 1 .. n}

\* requests a client can send: a plain request with or without a Host header,
\* a CONNECT with or without an authority in its URI and a Host header
ReqShapes ==
    {[method |-> "GET", authority |-> TRUE, host |-> h] : h \in BOOLEAN}
    \cup {[method |-> "CONNECT", authority |-> TRUE, host |-> TRUE]}
    \cup {[method |-> "CONNECT", authority |-> FALSE, host |-> h] :
             h \in BOOLEAN}
NoReq == [method |-> None, authority |-> FALSE, host |-> FALSE]
NoResp == [status |-> 0, body |-> None]
NoDial == [routes |-> <<>>, idx |-> 0, attempts |-> <<>>, result |-> None]

\* ProxyRoute::is_upstream
IsUpstream(r) == r \in {"Up1", "Up2"}

\* the address a route is dialled at: the target's authority for Direct, the
\* proxy URL's host and port for Upstream
EndpointOf(r) ==
    CASE r = "Direct" -> "target"
      [] r = "Up1" -> "proxy1"
      [] r = "Up2" -> "proxy2"
      [] OTHER -> None

\* extract_target_url: the CONNECT authority, else the Host header
HasTargetUrl(q) == (q.method = "CONNECT" /\ q.authority) \/ q.host

\* ProxyService::get_credentials_for_route: the provider is asked only for an
\* Upstream route; `found` is whether its rules cover the proxy host
CredentialsForRoute(r, found) == IF IsUpstream(r) /\ found THEN "basic" ELSE None

\* HeaderValue::from_str(&creds.to_basic_auth()): "Basic " followed by the
\* base64 of username:password is always a valid header value
BasicAuthHeaderOk(creds) == TRUE

\* ---- ConnectionTracker ----
\* track_connection: conns.push(info)
TrackConnection(conns, id) == Append(conns, [id |-> id, closed |-> FALSE])

\* close_connection: the first record with the id gets closed_at = now
RECURSIVE FirstWithId(_, _, _)
FirstWithId(conns, id, i) ==
    IF i > Len(conns) THEN 0
    ELSE IF conns[i].id = id THEN i ELSE FirstWithId(conns, id, i + 1)

CloseConnection(conns, id) ==
    LET i == FirstWithId(conns, id, 1)
    IN  IF i = 0 THEN conns ELSE [conns EXCEPT ![i].closed = TRUE]

\* start_cleanup: retain the open records and the records closed less than
\* 4 s ago; `old` holds the positions of the records closed 4 s ago or more
RECURSIVE Retain(_, _, _)
Retain(conns, old, i) ==
    IF i > Len(conns) THEN <<>>
    ELSE (IF conns[i].closed /\ i \in old THEN <<>> ELSE <<conns[i]>>)
         \o Retain(conns, old, i + 1)

\* ---- HyperConnector::call, the route loop ----
\* top of the loop: past the end the dial fails with TimedOut, a Blocked
\* route ends it with PermissionDenied, otherwise a connect is attempted
DialAdvanceSkipBlocked(d) ==
    IF d.idx > Len(d.routes) THEN [d EXCEPT !.result = "TimedOut"] ELSE d
DialAdvance(d) ==
    IF d.idx > Len(d.routes) THEN [d EXCEPT !.result = "TimedOut"]
    ELSE IF d.routes[d.idx] = "Blocked"
         THEN [d EXCEPT !.result = "PermissionDenied"]
         ELSE d

DialStart(rs) ==
    DialAdvance([routes |-> rs, idx |-> 1, attempts |-> <<>>,
                 result |-> "pending"])

\* timeout(200 ms, TcpStream::connect(addr)) on the current route: the stream
\* is returned on success, the loop continues on an error or a timeout
DialStepGiveUp(d, reach) ==
    IF EndpointOf(d.routes[d.idx]) \in reach
    THEN [d EXCEPT !.attempts = Append(@, d.idx), !.result = "connected"]
    ELSE [d EXCEPT !.attempts = Append(@, d.idx), !.result = "TimedOut"]
DialStep(d, reach) ==
    IF EndpointOf(d.routes[d.idx]) \in reach
    THEN [d EXCEPT !.attempts = Append(@, d.idx), !.result = "connected"]
    ELSE DialAdvance([d EXCEPT !.attempts = Append(@, d.idx), !.idx = @ + 1])

\* the routes a call dials: the route cached for the URI (removed from the
\* cache), else the resolver's whole list
CallRoutes(key) ==
    IF route_cache[key] # None THEN <<route_cache[key]>> ELSE pac_routes

InitDispState ==
    /\ route_cache = [k \in UriKeys |-> None]
    /\ connections = <<>>
    /\ next_id = 1
    /\ hpc = "idle"
    /\ hreq = NoReq
    /\ hconn = 0
    /\ hroute = None
    /\ hcreds = None
    /\ hstatus = 0
    /\ resp = [c \in Conns |-> NoResp]
    /\ tpc = [c \in Conns |-> "none"]
    /\ dial = [c \in Conns |-> NoDial]
    /\ conn_method = [c \in Conns |-> None]
    /\ events = [c \in Conns |-> <<>>]
    /\ via = [c \in Conns |-> None]
    /\ upstream_open = [c \in Conns |-> FALSE]

InitDisp ==
    /\ http_client \in {"reqwest", "hyper"}
    /\ up \in SUBSET DispEndpoints
    /\ pac_routes \in RouteLists(DispRoutes, MaxRoutes)
    /\ InitDispState

envVars == <<http_client, up, pac_routes>>

\* the handler returns: its locals are dropped
HandlerReturns ==
    /\ hpc' = "idle"
    /\ hreq' = NoReq
    /\ hconn' = 0
    /\ hroute' = None
    /\ hcreds' = None
    /\ hstatus' = 0

\* HyperProxyAdapter::handle turns any error into 500 with an empty body
Reply(c, st, body) == resp' = [resp EXCEPT ![c] = [status |-> st, body |-> body]]
ReplyError(c) == Reply(c, 500, "empty") /\ HandlerReturns

Event(c, e) == events' = [events EXCEPT ![c] = Append(@, e)]

\* HyperProxyAdapter::handle_internal: a request arrives; its target URL is
\* extracted (a missing Host header is MissingHost)
Accept ==
    /\ hpc = "idle"
    /\ next_id <= MaxConns
    /\ next_id' = next_id + 1
    /\ \E q \in ReqShapes :
          IF HasTargetUrl(q)
          THEN /\ hreq' = q
               /\ hconn' = next_id
               /\ hpc' = IF q.method = "CONNECT" THEN "connect_resolve"
                         ELSE "http_resolve"
               /\ conn_method' = [conn_method EXCEPT ![next_id] =
                      IF q.method = "CONNECT" THEN "connect" ELSE "http"]
               /\ UNCHANGED <<hroute, hcreds, hstatus, resp>>
          ELSE /\ ReplyError(next_id)
               /\ UNCHANGED conn_method
    /\ UNCHANGED <<envVars, route_cache, connections, tpc, dial, events, via,
                   upstream_open>>
    /\ UNCHANGED <<pacVars, detVars, credVars, auxVars>>

\* handle_http_request: resolver.resolve_route(&request.target_url).await?
\* (a ResolutionFailed error leaves the handler through the `?`)
HttpResolve ==
    /\ hpc = "http_resolve"
    /\ \/ /\ hroute' = Head(pac_routes)
          /\ Event(hconn, "resolved")
          /\ hpc' = "http_creds"
          /\ UNCHANGED <<hreq, hconn, hcreds, hstatus, resp>>
       \/ /\ ReplyError(hconn)
          /\ Event(hconn, "resolve_failed")
    /\ UNCHANGED <<envVars, route_cache, connections, next_id, tpc, dial,
                   via, upstream_open>>
    /\ UNCHANGED <<conn_method, pacVars, detVars, credVars, auxVars>>

\* handle_http_request: get_credentials_for_route(&route).await?
HttpCreds ==
    /\ hpc = "http_creds"
    /\ \E found \in BOOLEAN : hcreds' = CredentialsForRoute(hroute, found)
    /\ hpc' = "http_track"
    /\ UNCHANGED <<envVars, route_cache, connections, next_id, hreq, hconn,
                   hroute, hstatus, resp, tpc, dial, events, via,
                   upstream_open>>
    /\ UNCHANGED <<conn_method, pacVars, detVars, credVars, auxVars>>

\* handle_http_request: tracker.track_connection(conn_info).await?
HttpTrack ==
    /\ hpc = "http_track"
    /\ connections' = TrackConnection(connections, hconn)
    /\ Event(hconn, "track")
    /\ hpc' = "http_execute"
    /\ UNCHANGED <<envVars, route_cache, next_id, hreq, hconn, hroute, hcreds,
                   hstatus, resp, tpc, dial, via, upstream_open>>
    /\ UNCHANGED <<conn_method, pacVars, detVars, credVars, auxVars>>

\* ReqwestHttpClient::execute: Blocked is ConnectionFailed; otherwise the
\* request is sent over the one route given and the reply or a transport
\* error comes back
ReqwestExecute ==
    /\ hpc = "http_execute"
    /\ http_client = "reqwest"
    /\ Event(hconn, "execute")
    /\ \/ /\ hroute # "Blocked"
          /\ EndpointOf(hroute) \in up
          /\ \E st \in Statuses : hstatus' = st
          /\ via' = [via EXCEPT ![hconn] = hroute]
          /\ hpc' = "http_close"
          /\ UNCHANGED <<hreq, hconn, hroute, hcreds, resp>>
       \/ /\ ReplyError(hconn)
          /\ UNCHANGED via
    /\ UNCHANGED <<envVars, route_cache, connections, next_id, tpc, dial,
                   upstream_open>>
    /\ UNCHANGED <<conn_method, pacVars, detVars, credVars, auxVars>>

\* HyperHttpClient::execute: build the request, set_route_for_uri, hand it to
\* the client
HyperExecute ==
    /\ hpc = "http_execute"
    /\ http_client = "hyper"
    /\ Event(hconn, "execute")
    /\ IF IsUpstream(hroute) /\ hcreds # None /\ ~BasicAuthHeaderOk(hcreds)
       THEN /\ ReplyError(hconn)
            /\ UNCHANGED route_cache
       ELSE /\ route_cache' = [route_cache EXCEPT ![HttpKey] = hroute]
            /\ hpc' = "hyper_call"
            /\ UNCHANGED <<hreq, hconn, hroute, hcreds, hstatus, resp>>
    /\ UNCHANGED <<envVars, connections, next_id, tpc, dial, via,
                   upstream_open>>
    /\ UNCHANGED <<conn_method, pacVars, detVars, credVars, auxVars>>

\* HyperConnector::call for the plain request: get_route_for_uri, then the
\* routes to dial (resolve_all_routes, which may fail, when none is cached)
HyperCall ==
    /\ hpc = "hyper_call"
    /\ route_cache' = [route_cache EXCEPT ![HttpKey] = None]
    /\ \/ /\ dial' = [dial EXCEPT ![hconn] = DialStart(CallRoutes(HttpKey))]
          /\ hpc' = "hyper_dial"
          /\ UNCHANGED <<hreq, hconn, hroute, hcreds, hstatus, resp>>
       \/ /\ route_cache[HttpKey] = None
          /\ ReplyError(hconn)
          /\ UNCHANGED dial
    /\ UNCHANGED <<envVars, connections, next_id, tpc, events, via,
                   upstream_open>>
    /\ UNCHANGED <<conn_method, pacVars, detVars, credVars, auxVars>>

\* one connect attempt of a call in progress
DialAttempt(c) ==
    /\ dial[c].result = "pending"
    /\ dial' = [dial EXCEPT ![c] = DialStep(dial[c], up)]
    /\ UNCHANGED <<envVars, route_cache, connections, next_id, hpc, hreq,
                   hconn, hroute, hcreds, hstatus, resp, tpc, events, via,
                   upstream_open>>
    /\ UNCHANGED <<conn_method, pacVars, detVars, credVars, auxVars>>

\* HyperHttpClient::execute: client.request(hyper_req).await and the body;
\* a failed dial or a transport error is ConnectionFailed
HyperExchange ==
    /\ hpc = "hyper_dial"
    /\ dial[hconn].result \notin {"pending", None}
    /\ dial' = [dial EXCEPT ![hconn] = NoDial]
    /\ \/ /\ dial[hconn].result = "connected"
          /\ \E st \in Statuses : hstatus' = st
          /\ via' = [via EXCEPT ![hconn] = dial[hconn].routes[dial[hconn].idx]]
          /\ hpc' = "http_close"
          /\ UNCHANGED <<hreq, hconn, hroute, hcreds, resp>>
       \/ /\ ReplyError(hconn)
          /\ UNCHANGED via
    /\ UNCHANGED <<envVars, route_cache, connections, next_id, tpc, events,
                   upstream_open>>
    /\ UNCHANGED <<conn_method, pacVars, detVars, credVars, auxVars>>

\* handle_http_request: tracker.close_connection(conn_id).await?; the reply
\* is relayed to the client
HttpCloseSkipped ==
    /\ hpc = "http_close"
    /\ Reply(hconn, hstatus, "upstream")
    /\ HandlerReturns
    /\ UNCHANGED <<envVars, route_cache, connections, next_id, tpc, dial,
                   events, via, upstream_open>>
    /\ UNCHANGED <<conn_method, pacVars, detVars, credVars, auxVars>>
HttpClose ==
    /\ hpc = "http_close"
    /\ connections' = CloseConnection(connections, hconn)
    /\ Event(hconn, "close")
    /\ Reply(hconn, hstatus, "upstream")
    /\ HandlerReturns
    /\ UNCHANGED <<envVars, route_cache, next_id, tpc, dial, via,
                   upstream_open>>
    /\ UNCHANGED <<conn_method, pacVars, detVars, credVars, auxVars>>

\* handle_connect_request: resolve_route, and the Blocked check: a blocked
\* route is Rejected, which handle_connect answers with 403 and no body
ConnectResolveNoCheck ==
    /\ hpc = "connect_resolve"
    /\ \/ /\ hroute' = Head(pac_routes)
          /\ Event(hconn, "resolved")
          /\ hpc' = "connect_creds"
          /\ UNCHANGED <<hreq, hconn, hcreds, hstatus, resp>>
       \/ /\ ReplyError(hconn)
          /\ Event(hconn, "resolve_failed")
    /\ UNCHANGED <<envVars, route_cache, connections, next_id, tpc, dial,
                   via, upstream_open>>
    /\ UNCHANGED <<conn_method, pacVars, detVars, credVars, auxVars>>
ConnectResolve ==
    /\ hpc = "connect_resolve"
    /\ \/ /\ Head(pac_routes) # "Blocked"
          /\ hroute' = Head(pac_routes)
          /\ Event(hconn, "resolved")
          /\ hpc' = "connect_creds"
          /\ UNCHANGED <<hreq, hconn, hcreds, hstatus, resp>>
       \/ /\ Head(pac_routes) = "Blocked"
          /\ Event(hconn, "resolved")
          /\ Reply(hconn, 403, "empty")
          /\ HandlerReturns
       \/ /\ ReplyError(hconn)
          /\ Event(hconn, "resolve_failed")
    /\ UNCHANGED <<envVars, route_cache, connections, next_id, tpc, dial,
                   via, upstream_open>>
    /\ UNCHANGED <<conn_method, pacVars, detVars, credVars, auxVars>>

\* handle_connect_request: get_credentials_for_route(&route).await?
ConnectCreds ==
    /\ hpc = "connect_creds"
    /\ \E found \in BOOLEAN : hcreds' = CredentialsForRoute(hroute, found)
    /\ hpc' = "connect_track"
    /\ UNCHANGED <<envVars, route_cache, connections, next_id, hreq, hconn,
                   hroute, hstatus, resp, tpc, dial, events, via,
                   upstream_open>>
    /\ UNCHANGED <<conn_method, pacVars, detVars, credVars, auxVars>>

\* handle_connect_request: tracker.track_connection(conn_info).await?, Accept
ConnectTrack ==
    /\ hpc = "connect_track"
    /\ connections' = TrackConnection(connections, hconn)
    /\ Event(hconn, "track")
    /\ hpc' = "establish_tunnel"
    /\ UNCHANGED <<envVars, route_cache, next_id, hreq, hconn, hroute, hcreds,
                   hstatus, resp, tpc, dial, via, upstream_open>>
    /\ UNCHANGED <<conn_method, pacVars, detVars, credVars, auxVars>>

\* establish_tunnel: for Direct the authority is required, then the tunnel
\* task is spawned and 200 returned; for Upstream the CONNECT request to the
\* upstream is built (with Proxy-Authorization when there are credentials),
\* the task is spawned and 200 returned; a Blocked route is an error
EstablishTunnel ==
    /\ hpc = "establish_tunnel"
    /\ LET c == hconn
       IN  CASE hroute = "Direct" ->
                  IF hreq.authority
                  THEN /\ tpc' = [tpc EXCEPT ![c] = "d_upgrade"]
                       /\ Reply(c, 200, "empty")
                       /\ HandlerReturns
                       /\ UNCHANGED auth_for
                  ELSE /\ ReplyError(c)
                       /\ UNCHANGED <<tpc, auth_for>>
             [] IsUpstream(hroute) ->
                  IF hcreds # None /\ ~BasicAuthHeaderOk(hcreds)
                  THEN /\ ReplyError(c)
                       /\ UNCHANGED <<tpc, auth_for>>
                  ELSE /\ tpc' = [tpc EXCEPT ![c] =
                                    IF hreq.authority THEN "u_request"
                                    ELSE "u_failed"]
                       /\ auth_for' = [auth_for EXCEPT ![c] =
                                         IF hcreds # None THEN hroute ELSE None]
                       /\ Reply(c, 200, "empty")
                       /\ HandlerReturns
             [] OTHER ->
                  /\ ReplyError(c)
                  /\ UNCHANGED <<tpc, auth_for>>
    /\ UNCHANGED <<envVars, route_cache, connections, next_id, dial, events,
                   via, upstream_open>>
    /\ UNCHANGED <<conn_method, pacVars, detVars, credVars>>
    /\ UNCHANGED <<pvVars, npVars, tkVars, evVars, hx_pc, hx_route, hx_src>>

\* Direct tunnel task: hyper::upgrade::on(req), which completes once the 200
\* has been written to the client, or fails
DirectUpgrade(c) ==
    /\ tpc[c] = "d_upgrade"
    /\ resp[c].status = 200
    /\ \E ok \in BOOLEAN :
          tpc' = [tpc EXCEPT ![c] = IF ok THEN "d_connect" ELSE "t_close"]
    /\ UNCHANGED <<envVars, route_cache, connections, next_id, hpc, hreq,
                   hconn, hroute, hcreds, hstatus, resp, dial, events, via,
                   upstream_open>>
    /\ UNCHANGED <<conn_method, pacVars, detVars, credVars, auxVars>>

\* Direct tunnel task: TcpStream::connect(&remote_host)
DirectConnect(c) ==
    /\ tpc[c] = "d_connect"
    /\ tpc' = [tpc EXCEPT ![c] = IF "target" \in up THEN "t_copy" ELSE "t_close"]
    /\ UNCHANGED <<envVars, route_cache, connections, next_id, hpc, hreq,
                   hconn, hroute, hcreds, hstatus, resp, dial, events, via,
                   upstream_open>>
    /\ UNCHANGED <<conn_method, pacVars, detVars, credVars, auxVars>>

\* Upstream tunnel task: client.request(server_req) reaches HyperConnector::
\* call: get_route_for_uri, else resolve_all_routes, which may fail
UpstreamCall(c) ==
    /\ tpc[c] = "u_request"
    /\ route_cache' = [route_cache EXCEPT ![ConnectKey] = None]
    /\ \/ /\ dial' = [dial EXCEPT ![c] = DialStart(CallRoutes(ConnectKey))]
          /\ tpc' = [tpc EXCEPT ![c] = "u_dial"]
          /\ UNCHANGED auth_for
       \/ /\ route_cache[ConnectKey] = None
          /\ tpc' = [tpc EXCEPT ![c] = "t_close"]
          /\ auth_for' = [auth_for EXCEPT ![c] = None]
          /\ UNCHANGED dial
    /\ UNCHANGED <<envVars, connections, next_id, hpc, hreq, hconn, hroute,
                   hcreds, hstatus, resp, events, via, upstream_open>>
    /\ UNCHANGED <<conn_method, pacVars, detVars, credVars>>
    /\ UNCHANGED <<pvVars, npVars, tkVars, evVars, hx_pc, hx_route, hx_src>>

\* Upstream tunnel task: the request has no authority to connect to, and
\* client.request fails
UpstreamNoAuthority(c) ==
    /\ tpc[c] = "u_failed"
    /\ tpc' = [tpc EXCEPT ![c] = "t_close"]
    /\ UNCHANGED <<envVars, route_cache, connections, next_id, hpc, hreq,
                   hconn, hroute, hcreds, hstatus, resp, dial, events, via,
                   upstream_open>>
    /\ auth_for' = [auth_for EXCEPT ![c] = None]
    /\ UNCHANGED <<conn_method, pacVars, detVars, credVars>>
    /\ UNCHANGED <<pvVars, npVars, tkVars, evVars, hx_pc, hx_route, hx_src>>

\* Upstream tunnel task: the dial ended; on a stream the CONNECT is sent and
\* the reply awaited, then hyper::upgrade::on(res): only a 2xx reply opens
\* the session
UpstreamHandshake(c) ==
    /\ tpc[c] = "u_dial"
    /\ dial[c].result \notin {"pending", None}
    /\ dial' = [dial EXCEPT ![c] = NoDial]
    /\ \/ /\ dial[c].result = "connected"
          /\ upstream_open' = [upstream_open EXCEPT ![c] = TRUE]
          /\ via' = [via EXCEPT ![c] = dial[c].routes[dial[c].idx]]
          /\ tpc' = [tpc EXCEPT ![c] = "u_upgrade"]
          /\ UNCHANGED auth_for
       \/ /\ tpc' = [tpc EXCEPT ![c] = "t_close"]
          /\ auth_for' = [auth_for EXCEPT ![c] = None]
          /\ UNCHANGED <<upstream_open, via>>
    /\ UNCHANGED <<envVars, route_cache, connections, next_id, hpc, hreq,
                   hconn, hroute, hcreds, hstatus, resp, events>>
    /\ UNCHANGED <<conn_method, pacVars, detVars, credVars>>
    /\ UNCHANGED <<pvVars, npVars, tkVars, evVars, hx_pc, hx_route, hx_src>>

\* Upstream tunnel task: hyper::upgrade::on(req), which completes once the
\* 200 has been written to the client, or fails
UpstreamUpgrade(c) ==
    /\ tpc[c] = "u_upgrade"
    /\ resp[c].status = 200
    /\ \E ok \in BOOLEAN :
          tpc' = [tpc EXCEPT ![c] = IF ok THEN "t_copy" ELSE "t_close"]
    /\ UNCHANGED <<envVars, route_cache, connections, next_id, hpc, hreq,
                   hconn, hroute, hcreds, hstatus, resp, dial, events, via,
                   upstream_open>>
    /\ auth_for' = [auth_for EXCEPT ![c] = None]
    /\ UNCHANGED <<conn_method, pacVars, detVars, credVars>>
    /\ UNCHANGED <<pvVars, npVars, tkVars, evVars, hx_pc, hx_route, hx_src>>

\* tunnel task: copy_bidirectional ends, cleanly or with an error
TunnelEnds(c) ==
    /\ tpc[c] = "t_copy"
    /\ tpc' = [tpc EXCEPT ![c] = "t_close"]
    /\ UNCHANGED <<envVars, route_cache, connections, next_id, hpc, hreq,
                   hconn, hroute, hcreds, hstatus, resp, dial, events, via,
                   upstream_open>>
    /\ UNCHANGED <<conn_method, pacVars, detVars, credVars, auxVars>>

\* tunnel task: service.close_connection(connection_id).await.ok()
TunnelClose(c) ==
    /\ tpc[c] = "t_close"
    /\ connections' = CloseConnection(connections, c)
    /\ Event(c, "close")
    /\ tpc' = [tpc EXCEPT ![c] = "t_done"]
    /\ UNCHANGED <<envVars, route_cache, next_id, hpc, hreq, hconn, hroute,
                   hcreds, hstatus, resp, dial, via, upstream_open>>
    /\ UNCHANGED <<conn_method, pacVars, detVars, credVars, auxVars>>

\* ConnectionTracker::start_cleanup, one tick of the sweep
Sweep ==
    /\ \E old \in SUBSET {i \in DOMAIN connections : connections[i].closed} :
          /\ old # {}
          /\ connections' = Retain(connections, old, 1)
    /\ UNCHANGED <<envVars, route_cache, next_id, hpc, hreq, hconn, hroute,
                   hcreds, hstatus, resp, tpc, dial, events, via,
                   upstream_open>>
    /\ UNCHANGED <<conn_method, pacVars, detVars, credVars, auxVars>>

(***************************************************************************)
(* Network detectors                                                       *)
(***************************************************************************)
\* an IPv4 address as its 32-bit value
Ip(a, b, c, d) == ((a * 256 + b) * 256 + c) * 256 + d

\* Ipv4Net::contains: the address agrees with the network on the prefix bits
NetContains(net, ip) ==
    (ip \div 2 ^ (32 - net.len)) = (net.base \div 2 ^ (32 - net.len))

\* subnet strings of the rules: 10.0.0.0/8, 10.1.0.0/16, a string that does
\* not parse as an Ipv4Net, and the absent interface_ip_subnet
Net10 == [kind |-> "net", base |-> Ip(10, 0, 0, 0), len |-> 8]
Net10_1 == [kind |-> "net", base |-> Ip(10, 1, 0, 0), len |-> 16]
BadSubnet == [kind |-> "bad", base |-> 0, len |-> 0]
NoSubnet == [kind |-> "absent", base |-> 0, len |-> 0]

\* WildMatch::matches: `*` matches any run of characters, `?` exactly one
RECURSIVE GlobMatches(_, _)
GlobMatches(p, s) ==
    IF p = <<>> THEN s = <<>>
    ELSE IF Head(p) = "*"
         THEN \/ GlobMatches(Tail(p), s)
              \/ (s # <<>> /\ GlobMatches(p, Tail(s)))
         ELSE /\ s # <<>>
              /\ Head(p) \in {"?", Head(s)}
              /\ GlobMatches(Tail(p), Tail(s))

\* default-route interfaces the host can have: name and IPv4 addresses
IfaceNames == {<<"e", "n", "0">>, <<"w", "g", "0">>}
IfaceAddrs == {Ip(10, 0, 0, 5), Ip(100, 64, 0, 1)}
Ifaces == [name : IfaceNames, ipv4 : SUBSET IfaceAddrs]
NoIface == [name |-> <<>>, ipv4 |-> {}]

\* Option<String> of a rule's when_match / when_no_match: None or a command
NoCmd == None
Cmds == {NoCmd, "sh"}

\* GatewayRule: default_route_interface, interface_ip_subnet, pac_url,
\* when_match, when_no_match
GwGlobs == {<<"e", "n", "*">>, <<"?", "g", "0">>}
GwRuleSet ==
    [glob : GwGlobs, subnet : {NoSubnet, Net10}, pac : PacUrls,
     when_match : {NoCmd}, when_no_match : {NoCmd}]
    \cup {[glob |-> <<"e", "n", "*">>, subnet |-> BadSubnet, pac |-> "pacA",
           when_match |-> NoCmd, when_no_match |-> NoCmd]}
\* rules with commands
GwHookRuleSet ==
    [glob : GwGlobs, subnet : {NoSubnet}, pac : {"pacA"},
     when_match : Cmds, when_no_match : Cmds]
    \cup {[glob |-> <<"?", "g", "0">>, subnet |-> NoSubnet, pac |-> "pacB",
           when_match |-> "sh", when_no_match |-> "sh"]}

\* gw_failed when no update_pac_url call failed
NoFail == "nofail"

RuleLists(R, n) == UNION {[1 .. k -> R] : k \in 0 .. n}

\* the task a detector calls update_pac_url as
DetTask == "u1"

\* the rule loop of GatewayListener::refresh_rules_static, one rule:
\* interface_matches && ip_matches
GwRuleMatchesNameOnly(rule, iface) == GlobMatches(rule.glob, iface.name)
GwRuleMatches(rule, iface) ==
    /\ GlobMatches(rule.glob, iface.name)
    /\ \/ rule.subnet = NoSubnet
       \/ \E ip \in iface.ipv4 : NetContains(rule.subnet, ip)

InitGw ==
    /\ gw_pc = "refresh"
    /\ gw_iface = NoIface
    /\ gw_idx = 0
    /\ gw_new = None
    /\ gw_matched = 0
    /\ gw_last = None
    /\ gw_ticks = 0
    /\ gw_computed = 0
    /\ gw_calls = 0
    /\ gw_prev = None
    /\ gw_changes = 0
    /\ gw_ran = {}
    /\ gw_failed = NoFail

InitGwIdle ==
    /\ gw_rules = <<>>
    /\ gw_pc = "off"
    /\ gw_iface = NoIface
    /\ gw_idx = 0
    /\ gw_new = None
    /\ gw_matched = 0
    /\ gw_last = None
    /\ gw_ticks = 0
    /\ gw_computed = 0
    /\ gw_calls = 0
    /\ gw_prev = None
    /\ gw_changes = 0
    /\ gw_ran = {}
    /\ gw_failed = NoFail

gwHist == <<gw_ticks, gw_computed, gw_calls, gw_prev, gw_changes, gw_ran,
            gw_failed>>
rcVars == <<rc_rules, rc_pc, rc_ns, rc_i, rc_j, rc_matched, rc_events,
            rc_pushed, rc_prev, rc_failed, rc_ran>>
bcVars == <<bc_rules, bc_pc, bc_ticks, bc_last, bc_repeat>>
pacTaskVars == <<url_readers, rpc, rkind, rurl, rtext, rhit, rout, looked,
                 first_hit, cleared>>

\* the refresh returns (Ok or Err) and the task sleeps for 5 s
GwReturns ==
    /\ gw_pc' = "sleep"
    /\ gw_ticks' = gw_ticks + 1
    /\ gw_iface' = NoIface
    /\ gw_idx' = 0
    /\ gw_new' = None
    /\ gw_matched' = 0
    /\ gw_failed' = NoFail

\* the 5 s sleep of the loop ends
GwTick ==
    /\ gw_pc = "sleep"
    /\ gw_ticks < MaxTicks
    /\ gw_pc' = "refresh"
    /\ UNCHANGED <<gw_rules, gw_iface, gw_idx, gw_new, gw_matched, gw_last,
                   gwHist, rcVars, bcVars>>
    /\ UNCHANGED <<pacVars, dispVars, credVars, auxVars>>

\* refresh_rules_static: netdev::get_default_interface(), which may fail
GwDetect ==
    /\ gw_pc = "refresh"
    /\ \/ \E f \in Ifaces :
             /\ gw_iface' = f
             /\ gw_idx' = 1
             /\ gw_new' = None
             /\ gw_matched' = 0
             /\ gw_pc' = IF gw_rules = <<>> THEN "compare" ELSE "rules"
             /\ UNCHANGED <<gw_ticks, gw_failed>>
       \/ GwReturns
    /\ gw_ran' = {}
    /\ UNCHANGED <<gw_rules, gw_last, gw_computed, gw_calls, gw_prev,
                   gw_changes, rcVars, bcVars>>
    /\ UNCHANGED <<pacVars, dispVars, credVars, auxVars>>

\* refresh_rules_static: one iteration of the rule loop; an invalid subnet
\* is an error, the first matching rule ends the loop
GwRule ==
    /\ gw_pc = "rules"
    /\ LET rule == gw_rules[gw_idx]
       IN  IF rule.subnet = BadSubnet
           THEN GwReturns
           ELSE IF GwRuleMatches(rule, gw_iface)
                THEN /\ gw_new' = rule.pac
                     /\ gw_matched' = gw_idx
                     /\ gw_pc' = "compare"
                     /\ UNCHANGED <<gw_iface, gw_idx, gw_ticks, gw_failed>>
                ELSE /\ gw_idx' = gw_idx + 1
                     /\ gw_pc' = IF gw_idx + 1 > Len(gw_rules) THEN "compare"
                                 ELSE "rules"
                     /\ UNCHANGED <<gw_iface, gw_new, gw_matched, gw_ticks,
                                    gw_failed>>
    /\ UNCHANGED <<gw_rules, gw_last, gw_computed, gw_calls, gw_prev,
                   gw_changes, gw_ran, rcVars, bcVars>>
    /\ UNCHANGED <<pacVars, dispVars, credVars, auxVars>>

\* refresh_rules_static: if new_pac_url != *last_pac_url the resolver's
\* update_pac_url is called, otherwise the refresh returns
GwCompareAlways ==
    /\ gw_pc = "compare"
    /\ gw_computed' = gw_computed + 1
    /\ gw_prev' = gw_new
    /\ gw_changes' = gw_changes + (IF gw_new # gw_prev THEN 1 ELSE 0)
    /\ upc[DetTask] = "idle"
    /\ upc' = [upc EXCEPT ![DetTask] = "write_url"]
    /\ uarg' = [uarg EXCEPT ![DetTask] = gw_new]
    /\ gw_calls' = gw_calls + 1
    /\ gw_pc' = "update"
    /\ UNCHANGED <<gw_iface, gw_idx, gw_new, gw_matched, gw_ticks, gw_failed>>
    /\ UNCHANGED <<gw_rules, gw_last, gw_ran, rcVars, bcVars>>
    /\ UNCHANGED <<pac_url, pac_cache, url_writer, epoch, pacTaskVars>>
    /\ UNCHANGED <<dispVars, credVars, auxVars>>
GwCompare ==
    /\ gw_pc = "compare"
    /\ gw_computed' = gw_computed + 1
    /\ gw_prev' = gw_new
    /\ gw_changes' = gw_changes + (IF gw_new # gw_prev THEN 1 ELSE 0)
    /\ IF gw_new # gw_last
       THEN /\ upc[DetTask] = "idle"
            /\ upc' = [upc EXCEPT ![DetTask] = "write_url"]
            /\ uarg' = [uarg EXCEPT ![DetTask] = gw_new]
            /\ gw_calls' = gw_calls + 1
            /\ gw_pc' = "update"
            /\ UNCHANGED <<gw_iface, gw_idx, gw_new, gw_matched, gw_ticks,
                           gw_failed>>
       ELSE /\ GwReturns
            /\ UNCHANGED <<upc, uarg, gw_calls>>
    /\ UNCHANGED <<gw_rules, gw_last, gw_ran, rcVars, bcVars>>
    /\ UNCHANGED <<pac_url, pac_cache, url_writer, epoch, pacTaskVars>>
    /\ UNCHANGED <<dispVars, credVars, auxVars>>

\* refresh_rules_static, after update_pac_url: with a matched rule its
\* when_match command is run if it has one, without a match the when_no_match
\* command of every rule that has one. A command is named by the index of
\* its rule and its kind
GwHooksOfAll(rules, matched) ==
    (IF matched # 0 /\ rules[matched].when_match # NoCmd
     THEN {<<matched, "when_match">>} ELSE {})
    \cup {<<j, "when_no_match">> :
             j \in {k \in DOMAIN rules :
                      k # matched /\ rules[k].when_no_match # NoCmd}}
GwHooks(rules, matched) ==
    IF matched # 0
    THEN IF rules[matched].when_match # NoCmd
         THEN {<<matched, "when_match">>} ELSE {}
    ELSE {<<j, "when_no_match">> :
             j \in {k \in DOMAIN rules : rules[k].when_no_match # NoCmd}}

\* refresh_rules_static: update_pac_url has returned Ok; the when_match or
\* when_no_match commands are run and *last_pac_url = new_pac_url
GwUpdatedForgets ==
    /\ gw_pc = "update"
    /\ upc[DetTask] = "idle"
    /\ gw_ran' = GwHooks(gw_rules, gw_matched)
    /\ GwReturns
    /\ UNCHANGED <<gw_rules, gw_last, gw_computed, gw_calls, gw_prev,
                   gw_changes, rcVars, bcVars>>
    /\ UNCHANGED <<pacVars, dispVars, credVars, auxVars>>
GwUpdated ==
    /\ gw_pc = "update"
    /\ upc[DetTask] = "idle"
    /\ gw_ran' = GwHooks(gw_rules, gw_matched)
    /\ gw_last' = gw_new
    /\ GwReturns
    /\ UNCHANGED <<gw_rules, gw_computed, gw_calls, gw_prev, gw_changes,
                   rcVars, bcVars>>
    /\ UNCHANGED <<pacVars, dispVars, credVars, auxVars>>

\* refresh_rules_static with a resolver port whose update_pac_url returns
\* Err: the `?` returns the error from the refresh before the commands and
\* before the assignment to *last_pac_url; start logs it and sleeps
GwUpdateFailsKeep ==
    /\ gw_pc = "compare"
    /\ gw_new # gw_last
    /\ gw_computed' = gw_computed + 1
    /\ gw_prev' = gw_new
    /\ gw_changes' = gw_changes + (IF gw_new # gw_prev THEN 1 ELSE 0)
    /\ gw_calls' = gw_calls + 1
    /\ gw_failed' = gw_new
    /\ gw_last' = gw_new
    /\ gw_pc' = "sleep"
    /\ gw_ticks' = gw_ticks + 1
    /\ gw_iface' = NoIface
    /\ gw_idx' = 0
    /\ gw_new' = None
    /\ gw_matched' = 0
    /\ UNCHANGED <<gw_rules, gw_ran, rcVars, bcVars>>
    /\ UNCHANGED <<pacVars, dispVars, credVars, auxVars>>
GwUpdateFails ==
    /\ gw_pc = "compare"
    /\ gw_new # gw_last
    /\ gw_computed' = gw_computed + 1
    /\ gw_prev' = gw_new
    /\ gw_changes' = gw_changes + (IF gw_new # gw_prev THEN 1 ELSE 0)
    /\ gw_calls' = gw_calls + 1
    /\ gw_failed' = gw_new
    /\ gw_pc' = "sleep"
    /\ gw_ticks' = gw_ticks + 1
    /\ gw_iface' = NoIface
    /\ gw_idx' = 0
    /\ gw_new' = None
    /\ gw_matched' = 0
    /\ UNCHANGED <<gw_rules, gw_last, gw_ran, rcVars, bcVars>>
    /\ UNCHANGED <<pacVars, dispVars, credVars, auxVars>>

\* ---- ResolvConfListener ----
\* nameserver lines of /etc/resolv.conf: IPv4 addresses and an IPv6 one
\* (ScopedIp::V4, ScopedIp::V6)
V4(a) == [v4 |-> TRUE, addr |-> a]
V6 == [v4 |-> FALSE, addr |-> 0]
NsAddrs == {V4(Ip(10, 0, 0, 53)), V4(Ip(10, 1, 0, 53)), V4(Ip(8, 8, 8, 8)), V6}
NsLists == UNION {[1 .. k -> NsAddrs] : k \in 0 .. MaxNs}

\* Config::get_nameservers_or_local: the configured nameservers, or the
\* local ones when there is none
NameserversOrLocal(ns) ==
    IF ns = <<>> THEN <<V4(Ip(127, 0, 0, 1)), V6>> ELSE ns

\* ResolvConfRule: resolver_subnet, pac_url, when_match, when_no_match
RcRuleSet ==
    [subnet : {Net10, Net10_1}, pac : PacUrls,
     when_match : {NoCmd}, when_no_match : {NoCmd}]
    \cup {[subnet |-> BadSubnet, pac |-> "pacA",
           when_match |-> NoCmd, when_no_match |-> NoCmd]}
\* rules with commands
RcHookRuleSet ==
    [subnet : {Net10, Net10_1}, pac : {"pacA"},
     when_match : Cmds, when_no_match : Cmds]

InitRc ==
    /\ rc_pc = "refresh"
    /\ rc_ns = <<>>
    /\ rc_i = 0
    /\ rc_j = 0
    /\ rc_matched = FALSE
    /\ rc_events = 0
    /\ rc_pushed = <<>>
    /\ rc_prev = "never"
    /\ rc_failed = FALSE
    /\ rc_ran = <<>>

InitRcIdle ==
    /\ rc_rules = <<>>
    /\ rc_pc = "off"
    /\ rc_ns = <<>>
    /\ rc_i = 0
    /\ rc_j = 0
    /\ rc_matched = FALSE
    /\ rc_events = 0
    /\ rc_pushed = <<>>
    /\ rc_prev = "never"
    /\ rc_failed = FALSE
    /\ rc_ran = <<>>

gwVars == <<gw_rules, gw_pc, gw_iface, gw_idx, gw_new, gw_matched, gw_last,
            gw_ticks, gw_computed, gw_calls, gw_prev, gw_changes, gw_ran,
            gw_failed>>

\* the refresh returns and the task waits for the next event of the watcher
RcReturns(failed) ==
    /\ rc_pc' = "watch"
    /\ rc_events' = rc_events + 1
    /\ rc_failed' = failed
    /\ rc_i' = 0
    /\ rc_j' = 0

\* the else branch of the rule loop: `else if let Some(cmd) =
\* &rule.when_no_match`, whatever `matched` is
RcElseHook(rule, j, matched, ran) ==
    IF rule.when_no_match # NoCmd
    THEN Append(ran, <<j, "when_no_match">>) ELSE ran

\* the call update_pac_url(x) is made
RcCall(x) ==
    /\ upc[DetTask] = "idle"
    /\ upc' = [upc EXCEPT ![DetTask] = "write_url"]
    /\ uarg' = [uarg EXCEPT ![DetTask] = x]
    /\ rc_pushed' = Append(rc_pushed, x)

\* the debounced watcher reports a change of /etc/resolv.conf
RcEvent ==
    /\ rc_pc = "watch"
    /\ rc_events < MaxTicks
    /\ rc_pc' = "refresh"
    /\ UNCHANGED <<rc_rules, rc_ns, rc_i, rc_j, rc_matched, rc_events,
                   rc_pushed, rc_prev, rc_failed, rc_ran, gwVars, bcVars>>
    /\ UNCHANGED <<pacVars, dispVars, credVars, auxVars>>

\* refresh_rules_static: open, read and parse /etc/resolv.conf
RcRead ==
    /\ rc_pc = "refresh"
    /\ rc_prev' = IF rc_pushed # <<>> THEN rc_pushed[Len(rc_pushed)]
                  ELSE rc_prev
    /\ rc_pushed' = <<>>
    /\ rc_ran' = <<>>
    /\ rc_matched' = FALSE
    /\ \/ \E ns \in NsLists :
             /\ rc_ns' = NameserversOrLocal(ns)
             /\ rc_i' = 1
             /\ rc_j' = 1
             /\ rc_pc' = "loop"
             /\ rc_failed' = FALSE
             /\ UNCHANGED rc_events
       \/ /\ RcReturns(TRUE)
          /\ rc_ns' = <<>>
    /\ UNCHANGED <<rc_rules, gwVars, bcVars>>
    /\ UNCHANGED <<pacVars, dispVars, credVars, auxVars>>

\* the nameserver loop: a nameserver is passed over when a rule has matched
\* for an earlier one or when it is not IPv4 (`if !matched`, `if let
\* ScopedIp::V4`, both tested before the rule loop is entered), and left
\* when the rule loop is through
RcNext ==
    /\ rc_pc = "loop"
    /\ rc_i <= Len(rc_ns)
    /\ \/ rc_j = 1 /\ (rc_matched \/ rc_ns[rc_i] = V6)
       \/ rc_j > Len(rc_rules)
    /\ rc_i' = rc_i + 1
    /\ rc_j' = 1
    /\ UNCHANGED <<rc_rules, rc_pc, rc_ns, rc_matched, rc_events, rc_pushed,
                   rc_prev, rc_failed, rc_ran, gwVars, bcVars>>
    /\ UNCHANGED <<pacVars, dispVars, credVars, auxVars>>

\* the rule loop, one rule: an invalid subnet is an error; when the subnet
\* contains the nameserver update_pac_url(Some(rule.pac_url)) is called,
\* otherwise the when_no_match command of the rule is run if it has one.
\* The loop has no break: it runs through all the rules once entered
RcRule ==
    /\ rc_pc = "loop"
    /\ rc_i <= Len(rc_ns)
    /\ rc_j > 1 \/ ~rc_matched
    /\ rc_ns[rc_i] # V6
    /\ rc_j <= Len(rc_rules)
    /\ LET rule == rc_rules[rc_j]
       IN  IF rule.subnet = BadSubnet
           THEN /\ RcReturns(TRUE)
                /\ UNCHANGED <<upc, uarg, rc_pushed, rc_ran>>
           ELSE IF NetContains(rule.subnet, rc_ns[rc_i].addr)
                THEN /\ RcCall(rule.pac)
                     /\ rc_pc' = "update_match"
                     /\ UNCHANGED <<rc_i, rc_j, rc_events, rc_failed, rc_ran>>
                ELSE /\ rc_j' = rc_j + 1
                     /\ rc_ran' = RcElseHook(rule, rc_j, rc_matched, rc_ran)
                     /\ UNCHANGED <<upc, uarg, rc_pushed, rc_pc, rc_i,
                                    rc_events, rc_failed>>
    /\ UNCHANGED <<rc_rules, rc_ns, rc_matched, rc_prev, gwVars, bcVars>>
    /\ UNCHANGED <<pac_url, pac_cache, url_writer, epoch, pacTaskVars>>
    /\ UNCHANGED <<dispVars, credVars, auxVars>>

\* update_pac_url has returned in the rule loop: matched = true, the
\* when_match command is run and the loop goes on with the next rule
RcMatched ==
    /\ rc_pc = "update_match"
    /\ upc[DetTask] = "idle"
    /\ rc_matched' = TRUE
    /\ rc_ran' = IF rc_rules[rc_j].when_match # NoCmd
                 THEN Append(rc_ran, <<rc_j, "when_match">>) ELSE rc_ran
    /\ rc_j' = rc_j + 1
    /\ rc_pc' = "loop"
    /\ UNCHANGED <<rc_rules, rc_ns, rc_i, rc_events, rc_pushed, rc_prev,
                   rc_failed, gwVars, bcVars>>
    /\ UNCHANGED <<pacVars, dispVars, credVars, auxVars>>

\* after the loops: if !matched, update_pac_url(None) is called
RcAfter ==
    /\ rc_pc = "loop"
    /\ rc_i > Len(rc_ns)
    /\ IF rc_matched
       THEN /\ RcReturns(FALSE)
            /\ UNCHANGED <<upc, uarg, rc_pushed>>
       ELSE /\ RcCall(None)
            /\ rc_pc' = "update_none"
            /\ UNCHANGED <<rc_i, rc_j, rc_events, rc_failed>>
    /\ UNCHANGED <<rc_rules, rc_ns, rc_matched, rc_prev, rc_ran, gwVars,
                   bcVars>>
    /\ UNCHANGED <<pac_url, pac_cache, url_writer, epoch, pacTaskVars>>
    /\ UNCHANGED <<dispVars, credVars, auxVars>>

\* update_pac_url(None) has returned, and the refresh with it
RcCleared ==
    /\ rc_pc = "update_none"
    /\ upc[DetTask] = "idle"
    /\ RcReturns(FALSE)
    /\ UNCHANGED <<rc_rules, rc_ns, rc_matched, rc_pushed, rc_prev, rc_ran,
                   gwVars, bcVars>>
    /\ UNCHANGED <<pacVars, dispVars, credVars, auxVars>>

\* ---- BeaconPoller ----
\* the task the beacon poller calls update_pac_url as
BcTask == "u2"

\* PacRule: beacon_host, pac_url
BeaconHosts == {"beacon1", "beacon2"}
BcRuleSet == [host : BeaconHosts, pac : PacUrls]

\* select_pac_url: the pac_url of the first rule whose beacon host resolves
RECURSIVE SelectPacUrl(_, _, _)
SelectPacUrl(rules, resolvable, i) ==
    IF i > Len(rules) THEN None
    ELSE IF rules[i].host \in resolvable THEN rules[i].pac
         ELSE SelectPacUrl(rules, resolvable, i + 1)

InitBc ==
    /\ bc_pc = "wait"
    /\ bc_ticks = 0
    /\ bc_last = None
    /\ bc_repeat = FALSE

InitBcIdle ==
    /\ bc_rules = <<>>
    /\ bc_pc = "off"
    /\ bc_ticks = 0
    /\ bc_last = None
    /\ bc_repeat = FALSE

\* the 3 s ticker fires (at once the first time): refresh_pac_url selects
\* the PAC URL and calls update_pac_url with it
BcTick ==
    /\ bc_pc = "wait"
    /\ bc_ticks < MaxTicks
    /\ upc[BcTask] = "idle"
    /\ \E resolvable \in SUBSET BeaconHosts :
          LET x == SelectPacUrl(bc_rules, resolvable, 1)
          IN  /\ upc' = [upc EXCEPT ![BcTask] = "write_url"]
              /\ uarg' = [uarg EXCEPT ![BcTask] = x]
              /\ bc_repeat' = (bc_repeat \/ (bc_ticks > 0 /\ x = bc_last))
              /\ bc_last' = x
    /\ bc_ticks' = bc_ticks + 1
    /\ bc_pc' = "update"
    /\ UNCHANGED <<bc_rules, gwVars, rcVars>>
    /\ UNCHANGED <<pac_url, pac_cache, url_writer, epoch, pacTaskVars>>
    /\ UNCHANGED <<dispVars, credVars, auxVars>>

\* update_pac_url has returned; the task waits for the next tick
BcUpdated ==
    /\ bc_pc = "update"
    /\ upc[BcTask] = "idle"
    /\ bc_pc' = "wait"
    /\ UNCHANGED <<bc_rules, bc_ticks, bc_last, bc_repeat, gwVars, rcVars>>
    /\ UNCHANGED <<pacVars, dispVars, credVars, auxVars>>

InitDetIdle == InitGwIdle /\ InitRcIdle /\ InitBcIdle

(***************************************************************************)
(* CredentialProvider and ProxyService::get_credentials_for_route          *)
(***************************************************************************)
\* host names, character by character as far as the lookup can tell: each
\* label is one element, each dot is one element
Dot == "."
HostABExampleNet == <<"a", Dot, "b", Dot, "example", Dot, "net">>
HostBExampleNet == <<"b", Dot, "example", Dot, "net">>
HostExampleNet == <<"example", Dot, "net">>
HostAExampleNet == <<"a", Dot, "example", Dot, "net">>
HostDotExampleNet == <<Dot, "example", Dot, "net">>
HostNet == <<"net">>
HostProxy1 == <<"proxy1">>
\* the host of the request's target URL
TargetHost == <<"target">>

\* remote_pattern values an AuthRule can have
CredPatterns ==
    {HostABExampleNet, HostBExampleNet, HostExampleNet, HostNet,
     HostDotExampleNet, TargetHost}

\* routes get_credentials_for_route is called with
CredProxyHosts ==
    {HostABExampleNet, HostAExampleNet, HostExampleNet, HostProxy1}
CredRoutes ==
    {[kind |-> "Direct", proxy |-> <<>>], [kind |-> "Blocked", proxy |-> <<>>]}
    \cup {[kind |-> "Upstream", proxy |-> h] : h \in CredProxyHosts}
NoRoute == [kind |-> None, proxy |-> <<>>]

\* str::trim_start_matches('.') and str::trim_start_matches(|ch| ch != '.')
RECURSIVE TrimDots(_)
TrimDots(h) == IF h # <<>> /\ Head(h) = Dot THEN TrimDots(Tail(h)) ELSE h
RECURSIVE TrimLabel(_)
TrimLabel(h) == IF h # <<>> /\ Head(h) # Dot THEN TrimLabel(Tail(h)) ELSE h

\* find_credentials_for_host: the host the lookup recurses on
TrimmedBare(h) == TrimDots(TrimLabel(TrimDots(h)))
Trimmed(h) == TrimLabel(TrimDots(h))

\* find_credentials_for_host as a whole: the empty host is None, an exact
\* rule is returned, otherwise the lookup recurses on the trimmed host when
\* that differs from the host and is not empty
RECURSIVE FindCredentialsForHost(_, _)
FindCredentialsForHost(rules, h) ==
    IF h = <<>> THEN <<>>
    ELSE IF h \in rules THEN h
    ELSE IF Trimmed(h) # h /\ Trimmed(h) # <<>>
         THEN FindCredentialsForHost(rules, Trimmed(h))
         ELSE <<>>

\* the cache of get_credentials: LruCache<String, Option<Credentials>>
CredCacheCap == 5
CredCachePut(c, e) ==
    LET n == <<e>> \o LruWithout(c, e.key)
    IN  IF Len(n) > CredCacheCap THEN SubSeq(n, 1, CredCacheCap) ELSE n

\* Option<Credentials>: the credentials of a rule, named by its pattern, or
\* none
NoCreds == <<>>

\* proxy_url.host_str() of an Upstream route
ProxyHostOfTarget(route) == TargetHost
ProxyHostOf(route) == route.proxy

InitCredState ==
    /\ cr_cache = <<>>
    /\ cr_pc = "idle"
    /\ cr_route = NoRoute
    /\ cr_host = <<>>
    /\ cr_key = <<>>
    /\ cr_result = NoCreds
    /\ cr_calls = 0
    /\ cr_asked = <<>>
    /\ cr_tried = <<>>

InitCredIdle == cr_rules = {} /\ InitCredState

\* get_credentials_for_route(route): only an Upstream route reaches the
\* provider, with the host of its proxy URL
CrCall ==
    /\ cr_pc = "idle"
    /\ cr_calls < MaxCredCalls
    /\ cr_calls' = cr_calls + 1
    /\ \E route \in CredRoutes :
          /\ cr_route' = route
          /\ IF route.kind = "Upstream"
             THEN /\ cr_host' = ProxyHostOf(route)
                  /\ cr_asked' = <<ProxyHostOf(route)>>
                  /\ cr_pc' = "cache_get"
             ELSE /\ cr_host' = <<>>
                  /\ cr_asked' = <<>>
                  /\ cr_pc' = "done"
    /\ cr_key' = <<>>
    /\ cr_result' = NoCreds
    /\ cr_tried' = <<>>
    /\ UNCHANGED <<cr_rules, cr_cache>>
    /\ UNCHANGED <<pacVars, dispVars, detVars, auxVars>>

\* get_credentials: cache.get(host)
CrCacheGet ==
    /\ cr_pc = "cache_get"
    /\ IF LruContains(cr_cache, cr_host)
       THEN /\ cr_result' = LruEntry(cr_cache, cr_host).value
            /\ cr_cache' = LruTouch(cr_cache, cr_host)
            /\ cr_pc' = "done"
            /\ UNCHANGED cr_key
       ELSE /\ cr_key' = cr_host
            /\ cr_pc' = "find"
            /\ UNCHANGED <<cr_result, cr_cache>>
    /\ UNCHANGED <<cr_rules, cr_route, cr_host, cr_calls, cr_asked, cr_tried>>
    /\ UNCHANGED <<pacVars, dispVars, detVars, auxVars>>

\* find_credentials_for_host, one level of the recursion: an empty host is
\* None, an exact rule is returned, otherwise the lookup recurses on the
\* trimmed host when that is shorter and not empty
CrFind ==
    /\ cr_pc = "find"
    /\ IF cr_key = <<>>
       THEN /\ cr_result' = NoCreds
            /\ cr_pc' = "cache_put"
            /\ UNCHANGED <<cr_key, cr_tried>>
       ELSE /\ cr_tried' = Append(cr_tried, cr_key)
            /\ IF cr_key \in cr_rules
               THEN /\ cr_result' = cr_key
                    /\ cr_pc' = "cache_put"
                    /\ UNCHANGED cr_key
               ELSE IF Trimmed(cr_key) # cr_key /\ Trimmed(cr_key) # <<>>
                    THEN /\ cr_key' = Trimmed(cr_key)
                         /\ UNCHANGED <<cr_result, cr_pc>>
                    ELSE /\ cr_result' = NoCreds
                         /\ cr_pc' = "cache_put"
                         /\ UNCHANGED cr_key
    /\ UNCHANGED <<cr_rules, cr_cache, cr_route, cr_host, cr_calls, cr_asked>>
    /\ UNCHANGED <<pacVars, dispVars, detVars, auxVars>>

\* get_credentials: cache.put(host, creds)
CrCachePut ==
    /\ cr_pc = "cache_put"
    /\ cr_cache' = CredCachePut(cr_cache, [key |-> cr_host, value |-> cr_result])
    /\ cr_pc' = "done"
    /\ UNCHANGED <<cr_rules, cr_route, cr_host, cr_key, cr_result, cr_calls,
                   cr_asked, cr_tried>>
    /\ UNCHANGED <<pacVars, dispVars, detVars, auxVars>>

\* the caller takes the result
CrReturn ==
    /\ cr_pc = "done"
    /\ cr_pc' = "idle"
    /\ cr_route' = NoRoute
    /\ cr_host' = <<>>
    /\ cr_key' = <<>>
    /\ cr_result' = NoCreds
    /\ cr_asked' = <<>>
    /\ cr_tried' = <<>>
    /\ UNCHANGED <<cr_rules, cr_cache, cr_calls>>
    /\ UNCHANGED <<pacVars, dispVars, detVars, auxVars>>

(***************************************************************************)
(* CredentialProvider under concurrent callers                             *)
(***************************************************************************)
ProviderTasks == {"p1", "p2"}
FindTask == "p1"

\* hosts the tasks ask credentials for: six of them, one more than the
\* cache holds
HostH1 == <<"h1">>
HostH2 == <<"h2">>
HostH3 == <<"h3">>
ProviderHosts ==
    {HostAExampleNet, HostExampleNet, HostProxy1, HostH1, HostH2, HostH3}
TaskHosts(t) == IF t = "p1" THEN ProviderHosts ELSE {HostAExampleNet, HostH1}
ProviderRules == {{HostDotExampleNet, HostH1}, {HostExampleNet, HostProxy1}}

\* hosts find_credentials_for_host is checked on: every string of labels and
\* dots up to a length
HostAtoms == {"a", "b", Dot}
FindHosts == UNION {[1 .. k -> HostAtoms] : k \in 0 .. MaxHostLen}
FindPatterns == {<<"b">>, <<Dot, "b">>, <<"a", Dot, "b">>}

InitPvIdle ==
    /\ pv_pc = [t \in ProviderTasks |-> "idle"]
    /\ pv_via = [t \in ProviderTasks |-> None]
    /\ pv_host = [t \in ProviderTasks |-> <<>>]
    /\ pv_key = [t \in ProviderTasks |-> <<>>]
    /\ pv_result = [t \in ProviderTasks |-> NoCreds]
    /\ pv_tried = [t \in ProviderTasks |-> <<>>]

allButPv == <<pacVars, dispVars, detVars, npVars, tkVars, evVars, cxVars>>

\* a task calls find_credentials_for_host(h)
PvFindCall(t) ==
    /\ pv_pc[t] = "idle"
    /\ \E h \in FindHosts :
          /\ pv_host' = [pv_host EXCEPT ![t] = h]
          /\ pv_key' = [pv_key EXCEPT ![t] = h]
    /\ pv_via' = [pv_via EXCEPT ![t] = "find"]
    /\ pv_pc' = [pv_pc EXCEPT ![t] = "find"]
    /\ pv_result' = [pv_result EXCEPT ![t] = NoCreds]
    /\ pv_tried' = [pv_tried EXCEPT ![t] = <<>>]
    /\ UNCHANGED <<credVars, allButPv>>

\* a task calls get_credentials(h)
PvGetCredentials(t) ==
    /\ pv_pc[t] = "idle"
    /\ \E h \in TaskHosts(t) : pv_host' = [pv_host EXCEPT ![t] = h]
    /\ pv_key' = [pv_key EXCEPT ![t] = <<>>]
    /\ pv_via' = [pv_via EXCEPT ![t] = "get_credentials"]
    /\ pv_pc' = [pv_pc EXCEPT ![t] = "cache_get"]
    /\ pv_result' = [pv_result EXCEPT ![t] = NoCreds]
    /\ pv_tried' = [pv_tried EXCEPT ![t] = <<>>]
    /\ UNCHANGED <<credVars, allButPv>>

\* get_credentials: cache.write(), cache.get(host); a hit returns the clone
PvCacheGetAny(t) ==
    /\ pv_pc[t] = "cache_get"
    /\ IF cr_cache # <<>>
       THEN /\ pv_result' = [pv_result EXCEPT ![t] = cr_cache[1].value]
            /\ pv_pc' = [pv_pc EXCEPT ![t] = "done"]
            /\ UNCHANGED <<pv_key, cr_cache>>
       ELSE /\ pv_key' = [pv_key EXCEPT ![t] = pv_host[t]]
            /\ pv_pc' = [pv_pc EXCEPT ![t] = "find"]
            /\ UNCHANGED <<pv_result, cr_cache>>
    /\ UNCHANGED <<pv_via, pv_host, pv_tried>>
    /\ UNCHANGED <<cr_rules, cr_pc, cr_route, cr_host, cr_key, cr_result,
                   cr_calls, cr_asked, cr_tried>>
    /\ UNCHANGED allButPv
PvCacheGet(t) ==
    /\ pv_pc[t] = "cache_get"
    /\ IF LruContains(cr_cache, pv_host[t])
       THEN /\ pv_result' = [pv_result EXCEPT ![t] =
                                LruEntry(cr_cache, pv_host[t]).value]
            /\ cr_cache' = LruTouch(cr_cache, pv_host[t])
            /\ pv_pc' = [pv_pc EXCEPT ![t] = "done"]
            /\ UNCHANGED pv_key
       ELSE /\ pv_key' = [pv_key EXCEPT ![t] = pv_host[t]]
            /\ pv_pc' = [pv_pc EXCEPT ![t] = "find"]
            /\ UNCHANGED <<pv_result, cr_cache>>
    /\ UNCHANGED <<pv_via, pv_host, pv_tried>>
    /\ UNCHANGED <<cr_rules, cr_pc, cr_route, cr_host, cr_key, cr_result,
                   cr_calls, cr_asked, cr_tried>>
    /\ UNCHANGED allButPv

\* where the result of find_credentials_for_host goes
PvFound(t) == IF pv_via[t] = "find" THEN "done" ELSE "cache_put"

\* find_credentials_for_host(pv_key), one level of the recursion
PvFindNoEmptyCheck(t) ==
    /\ pv_pc[t] = "find"
    /\ pv_tried' = [pv_tried EXCEPT ![t] = Append(@, pv_key[t])]
    /\ IF pv_key[t] = <<>>
       THEN /\ pv_result' = [pv_result EXCEPT ![t] = NoCreds]
            /\ pv_pc' = [pv_pc EXCEPT ![t] = PvFound(t)]
            /\ UNCHANGED pv_key
       ELSE IF pv_key[t] \in cr_rules
            THEN /\ pv_result' = [pv_result EXCEPT ![t] = pv_key[t]]
                 /\ pv_pc' = [pv_pc EXCEPT ![t] = PvFound(t)]
                 /\ UNCHANGED pv_key
            ELSE IF Trimmed(pv_key[t]) # pv_key[t]
                 THEN /\ pv_key' = [pv_key EXCEPT ![t] = Trimmed(pv_key[t])]
                      /\ UNCHANGED <<pv_result, pv_pc>>
                 ELSE /\ pv_result' = [pv_result EXCEPT ![t] = NoCreds]
                      /\ pv_pc' = [pv_pc EXCEPT ![t] = PvFound(t)]
                      /\ UNCHANGED pv_key
    /\ UNCHANGED <<pv_via, pv_host>>
    /\ UNCHANGED <<credVars, allButPv>>
PvFind(t) ==
    /\ pv_pc[t] = "find"
    /\ pv_tried' = [pv_tried EXCEPT ![t] = Append(@, pv_key[t])]
    /\ IF pv_key[t] = <<>>
       THEN /\ pv_result' = [pv_result EXCEPT ![t] = NoCreds]
            /\ pv_pc' = [pv_pc EXCEPT ![t] = PvFound(t)]
            /\ UNCHANGED pv_key
       ELSE IF pv_key[t] \in cr_rules
            THEN /\ pv_result' = [pv_result EXCEPT ![t] = pv_key[t]]
                 /\ pv_pc' = [pv_pc EXCEPT ![t] = PvFound(t)]
                 /\ UNCHANGED pv_key
            ELSE IF Trimmed(pv_key[t]) # pv_key[t] /\ Trimmed(pv_key[t]) # <<>>
                 THEN /\ pv_key' = [pv_key EXCEPT ![t] = Trimmed(pv_key[t])]
                      /\ UNCHANGED <<pv_result, pv_pc>>
                 ELSE /\ pv_result' = [pv_result EXCEPT ![t] = NoCreds]
                      /\ pv_pc' = [pv_pc EXCEPT ![t] = PvFound(t)]
                      /\ UNCHANGED pv_key
    /\ UNCHANGED <<pv_via, pv_host>>
    /\ UNCHANGED <<credVars, allButPv>>

\* get_credentials: cache.write(), cache.put(host, creds)
PvCachePut(t) ==
    /\ pv_pc[t] = "cache_put"
    /\ cr_cache' = CredCachePut(cr_cache,
                                [key |-> pv_host[t], value |-> pv_result[t]])
    /\ pv_pc' = [pv_pc EXCEPT ![t] = "done"]
    /\ UNCHANGED <<pv_via, pv_host, pv_key, pv_result, pv_tried>>
    /\ UNCHANGED <<cr_rules, cr_pc, cr_route, cr_host, cr_key, cr_result,
                   cr_calls, cr_asked, cr_tried>>
    /\ UNCHANGED allButPv

\* the caller takes the result
PvReturn(t) ==
    /\ pv_pc[t] = "done"
    /\ pv_pc' = [pv_pc EXCEPT ![t] = "idle"]
    /\ pv_via' = [pv_via EXCEPT ![t] = None]
    /\ pv_host' = [pv_host EXCEPT ![t] = <<>>]
    /\ pv_key' = [pv_key EXCEPT ![t] = <<>>]
    /\ pv_result' = [pv_result EXCEPT ![t] = NoCreds]
    /\ pv_tried' = [pv_tried EXCEPT ![t] = <<>>]
    /\ UNCHANGED <<credVars, allButPv>>

\* clear_cache: cache.write(), cache.clear()
PvClearCache ==
    /\ cr_cache # <<>>
    /\ cr_cache' = <<>>
    /\ UNCHANGED <<cr_rules, cr_pc, cr_route, cr_host, cr_key, cr_result,
                   cr_calls, cr_asked, cr_tried>>
    /\ UNCHANGED <<pvVars, allButPv>>

(***************************************************************************)
(* CredentialProvider::new                                                 *)
(***************************************************************************)
\* characters of a command's output: one that is not whitespace, one that is
OutChars == {"x", "\n"}
Whitespace == {"\n"}

\* what running `sh -c password_command` gives: the command cannot be run,
\* its output is not UTF-8, or its output
CommandOutcomes ==
    {[kind |-> "spawn_failed", out |-> <<>>],
     [kind |-> "not_utf8", out |-> <<>>]}
    \cup {[kind |-> "ok", out |-> o] :
            o \in UNION {[1 .. k -> OutChars] : k \in 0 .. MaxOutLen}}

AuthRuleSet ==
    {[remote_pattern |-> p, command |-> c] :
        p \in {HostDotExampleNet, HostProxy1}, c \in CommandOutcomes}
AuthRuleLists == UNION {[1 .. k -> AuthRuleSet] : k \in 0 .. MaxAuthRules}

\* str::trim_end
RECURSIVE TrimEnd(_)
TrimEnd(s) ==
    IF s = <<>> THEN s
    ELSE IF s[Len(s)] \in Whitespace THEN TrimEnd(SubSeq(s, 1, Len(s) - 1))
    ELSE s

\* execute_password_command: Err when the command cannot be run or its
\* output is not UTF-8, else Ok(stdout.trim_end())
ExecutePasswordCommandRaw(c) ==
    IF c.kind = "ok" THEN [ok |-> TRUE, value |-> c.out]
    ELSE [ok |-> FALSE, value |-> <<>>]
ExecutePasswordCommand(c) ==
    IF c.kind = "ok" THEN [ok |-> TRUE, value |-> TrimEnd(c.out)]
    ELSE [ok |-> FALSE, value |-> <<>>]

\* .unwrap_or_else(|_| String::new())
UnwrapOrEmpty(r) == IF r.ok THEN r.value ELSE <<>>

\* rules_map.insert(pattern, password)
NpInsert(map, p, pw) ==
    {e \in map : e.pattern # p} \cup {[pattern |-> p, password |-> pw]}

InitNpIdle ==
    /\ np_rules = <<>>
    /\ np_idx = 0
    /\ np_map = {}
    /\ np_state = "off"

allButNp == <<pacVars, dispVars, detVars, credVars, pvVars, tkVars, evVars,
              cxVars>>

\* CredentialProvider::new(auth_rules) is called
NpNew ==
    /\ np_state = "off"
    /\ np_rules' \in AuthRuleLists
    /\ np_idx' = 1
    /\ np_map' = {}
    /\ np_state' = "building"
    /\ UNCHANGED allButNp

\* one turn of `for rule in auth_rules`
NpRule ==
    /\ np_state = "building"
    /\ np_idx <= Len(np_rules)
    /\ LET rule == np_rules[np_idx]
           password == UnwrapOrEmpty(ExecutePasswordCommand(rule.command))
       IN  IF Len(password) = 0
           THEN /\ np_state' = "panicked"
                /\ UNCHANGED <<np_idx, np_map>>
           ELSE /\ np_map' = NpInsert(np_map, rule.remote_pattern, password)
                /\ np_idx' = np_idx + 1
                /\ UNCHANGED np_state
    /\ UNCHANGED np_rules
    /\ UNCHANGED allButNp

\* the loop is over: Self { rules, cache }
NpBuilt ==
    /\ np_state = "building"
    /\ np_idx > Len(np_rules)
    /\ np_state' = "ready"
    /\ UNCHANGED <<np_rules, np_idx, np_map>>
    /\ UNCHANGED allButNp

(***************************************************************************)
(* evaluate_pac (result parsing) and parse_proxy_route                     *)
(***************************************************************************)
\* what a FindProxyForURL result is made of: words, ';', ' ' and '"'.
\* Words written next to each other make one longer word.
Semi == ";"
Space == " "
Quote == "\""
PacWords == {"DIRECT", "PROXY", "p1:80"}
PacAtoms == PacWords \cup {Semi, Space, Quote}
PacResults == UNION {[1 .. k -> PacAtoms] : k \in 0 .. MaxPacLen}

\* .replace('"', "")
KeepQuotes(s) == s
RemoveQuotes(s) == SelectSeq(s, LAMBDA a : a # Quote)

\* .split(sep)
FirstIndex(s, a) ==
    IF \E i \in DOMAIN s : s[i] = a
    THEN CHOOSE i \in DOMAIN s : s[i] = a /\ \A j \in 1 .. i - 1 : s[j] # a
    ELSE 0
RECURSIVE SplitOn(_, _)
SplitOn(s, sep) ==
    LET i == FirstIndex(s, sep)
    IN  IF i = 0 THEN <<s>>
        ELSE <<SubSeq(s, 1, i - 1)>> \o SplitOn(SubSeq(s, i + 1, Len(s)), sep)

\* v.trim()
RECURSIVE TrimStartSpaces(_)
TrimStartSpaces(s) ==
    IF s # <<>> /\ s[1] = Space THEN TrimStartSpaces(Tail(s)) ELSE s
RECURSIVE TrimEndSpaces(_)
TrimEndSpaces(s) ==
    IF s # <<>> /\ s[Len(s)] = Space
    THEN TrimEndSpaces(SubSeq(s, 1, Len(s) - 1)) ELSE s
TrimSpaces(s) == TrimEndSpaces(TrimStartSpaces(s))

\* v.split_whitespace().collect()
SplitWhitespace(v) == SelectSeq(SplitOn(v, Space), LAMBDA part : part # <<>>)

\* the proxy URLs, as scheme and what follows "://"
DirectUrl == [scheme |-> "direct", rest |-> <<>>]
HttpUrl(proxy) == [scheme |-> "http", rest |-> proxy]

\* the closure mapping one item of the result to a proxy URL
PacItemUrl(v) ==
    LET parts == SplitWhitespace(v)
    IN  IF parts = <<>> THEN DirectUrl
        ELSE IF parts[1] = <<"DIRECT">> THEN DirectUrl
        ELSE IF parts[1] = <<"PROXY">>
             THEN IF Len(parts) >= 2 THEN HttpUrl(parts[2]) ELSE DirectUrl
        ELSE DirectUrl

\* the items of a string: split on ';', trimmed, the empty ones dropped
PacItems(s) ==
    LET raw == SplitOn(s, Semi)
        trimmed == [i \in DOMAIN raw |-> TrimSpaces(raw[i])]
    IN  SelectSeq(trimmed, LAMBDA v : v # <<>>)

\* the parsing of result_string in evaluate_pac
PacUrlsOf(s) ==
    LET items == PacItems(s)
        proxies == [i \in DOMAIN items |-> PacItemUrl(items[i])]
    IN  IF proxies = <<>> THEN <<DirectUrl>> ELSE proxies
EvaluatePac(result_string) == PacUrlsOf(RemoveQuotes(result_string))

\* proxy_url.parse::<Url>(): "direct://" parses; after "http://" or another
\* scheme a host is needed, and a colon starts the port, which ends the URL
HasColon(w) == w \in {"p1:80", ":80"}
UrlParses(u) ==
    \/ u.scheme = "direct" /\ u.rest = <<>>
    \/ /\ u.scheme # "direct"
       /\ u.rest # <<>>
       /\ u.rest[1] # ":80"
       /\ \A i \in 1 .. Len(u.rest) - 1 : ~HasColon(u.rest[i])

\* ProxyRoute / ProxyError::InvalidUri
NoUrl == [scheme |-> None, rest |-> <<>>]
RouteDirect == [kind |-> "Direct", proxy_url |-> NoUrl]
RouteUpstream(u) == [kind |-> "Upstream", proxy_url |-> u]
ErrInvalidUri == [kind |-> "InvalidUri", proxy_url |-> NoUrl]
RouteBlocked == [kind |-> "Blocked", proxy_url |-> NoUrl]

\* parse_proxy_route
ParseProxyRouteAsBlocked(u) ==
    IF ~UrlParses(u) THEN ErrInvalidUri
    ELSE IF u.scheme = "direct" THEN RouteDirect
    ELSE IF u.scheme \in {"http", "https"} THEN RouteUpstream(u)
    ELSE RouteBlocked
ParseProxyRoute(u) ==
    IF ~UrlParses(u) THEN ErrInvalidUri
    ELSE IF u.scheme = "direct" THEN RouteDirect
    ELSE IF u.scheme \in {"http", "https"} THEN RouteUpstream(u)
    ELSE ErrInvalidUri

\* proxy_urls.into_iter().map(parse_proxy_route).collect(): the routes, or
\* the first error
CollectRoutes(urls) ==
    LET parsed == [i \in DOMAIN urls |-> ParseProxyRoute(urls[i])]
    IN  IF \E i \in DOMAIN parsed : parsed[i].kind = "InvalidUri"
        THEN [ok |-> FALSE, routes |-> <<>>]
        ELSE [ok |-> TRUE, routes |-> parsed]

\* the URLs parse_proxy_route is checked on by itself
ProxyUrls ==
    {[scheme |-> s, rest |-> r] :
        s \in {"direct", "http", "https", "ftp"},
        r \in {<<>>, <<"p1:80">>, <<":80">>, <<"PROXY">>}}

NoRoutes == [ok |-> TRUE, routes |-> <<>>]

InitEvIdle ==
    /\ ev_pc = "off"
    /\ ev_input = <<>>
    /\ ev_urls = <<>>
    /\ ev_routes = NoRoutes

allButEv == <<pacVars, dispVars, detVars, credVars, pvVars, npVars, tkVars,
              cxVars>>

\* resolve_with_pac: evaluate_pac, FindProxyForURL having returned a string
EvEvaluate ==
    /\ ev_pc = "off"
    /\ \E s \in PacResults :
          /\ ev_input' = s
          /\ ev_urls' = EvaluatePac(s)
    /\ ev_pc' = "evaluated"
    /\ UNCHANGED ev_routes
    /\ UNCHANGED allButEv

\* resolve_with_pac: the proxy URLs are parsed and collected
EvParse ==
    /\ ev_pc = "evaluated"
    /\ ev_routes' = CollectRoutes(ev_urls)
    /\ ev_pc' = "parsed"
    /\ UNCHANGED <<ev_input, ev_urls>>
    /\ UNCHANGED allButEv

\* parse_proxy_route called on one URL
EvParseOne ==
    /\ ev_pc = "off"
    /\ \E u \in ProxyUrls :
          /\ ev_urls' = <<u>>
          /\ ev_routes' = [ok |-> ParseProxyRoute(u).kind # "InvalidUri",
                           routes |-> <<ParseProxyRoute(u)>>]
    /\ ev_pc' = "one"
    /\ UNCHANGED ev_input
    /\ UNCHANGED allButEv

\* the caller takes the result
EvReturn ==
    /\ ev_pc \in {"parsed", "one"}
    /\ ev_pc' = "off"
    /\ ev_input' = <<>>
    /\ ev_urls' = <<>>
    /\ ev_routes' = NoRoutes
    /\ UNCHANGED allButEv

(***************************************************************************)
(* ConnectionTracker with its clock                                        *)
(***************************************************************************)
\* the period of the sweep and the retention of a closed record
SweepPeriodMs == 250
RetentionSecs == 4

\* closed_at: None
NotClosed == -1
NoCall == [op |-> None, id |-> 0]

\* Duration::as_secs of the time from clock value `from` to clock value `to`
ElapsedSecs(from, to) == ((to - from) * SweepPeriodMs) \div 1000

\* track_connection: conns.push(info), closed_at = None
TkTrackConnection(conns, id) ==
    Append(conns, [id |-> id, closed_at |-> NotClosed])

\* close_connection: the first record with the id, if any, gets
\* closed_at = Some(Instant::now())
TkCloseFirst(conns, id, now) ==
    IF conns = <<>> THEN conns ELSE [conns EXCEPT ![1].closed_at = now]
TkCloseConnection(conns, id, now) ==
    LET i == FirstWithId(conns, id, 1)
    IN  IF i = 0 THEN conns ELSE [conns EXCEPT ![i].closed_at = now]

\* the predicate of conns.retain in start_cleanup
TkKeepOpenOnly(conn, now) == conn.closed_at = NotClosed
TkKeep(conn, now) ==
    IF conn.closed_at # NotClosed
    THEN ElapsedSecs(conn.closed_at, now) < RetentionSecs
    ELSE TRUE

\* get_active_connections: the records with closed_at = None
GetActiveConnections(conns) ==
    SelectSeq(conns, LAMBDA c : c.closed_at = NotClosed)

InitTracker ==
    /\ tk_conns = <<>>
    /\ tk_now = 0
    /\ tk_next_id = 0
    /\ tk_swept = FALSE
    /\ tk_last = NoCall
    /\ tk_active = <<>>

allButTk == <<pacVars, dispVars, detVars, credVars, pvVars, npVars, evVars,
              cxVars>>

\* the clock advances by one sweep period; what the last call returned is
\* forgotten
TkAdvance ==
    /\ tk_now < MaxClock
    /\ tk_now' = tk_now + 1
    /\ tk_swept' = FALSE
    /\ tk_last' = [op |-> "tick", id |-> 0]
    /\ tk_active' = <<>>
    /\ UNCHANGED <<tk_conns, tk_next_id>>
    /\ UNCHANGED allButTk

\* track_connection(info) with a fresh id
TkTrack ==
    /\ tk_next_id < MaxTracked
    /\ tk_next_id' = tk_next_id + 1
    /\ tk_conns' = TkTrackConnection(tk_conns, tk_next_id + 1)
    /\ tk_last' = [op |-> "track", id |-> tk_next_id + 1]
    /\ tk_active' = <<>>
    /\ UNCHANGED <<tk_now, tk_swept>>
    /\ UNCHANGED allButTk

\* close_connection(id), for any id
TkClose ==
    /\ \E id \in 1 .. MaxTracked :
          /\ tk_conns' = TkCloseConnection(tk_conns, id, tk_now)
          /\ tk_last' = [op |-> "close", id |-> id]
    /\ tk_active' = <<>>
    /\ UNCHANGED <<tk_now, tk_next_id, tk_swept>>
    /\ UNCHANGED allButTk

\* get_active_connections
TkGetActive ==
    /\ tk_active' = GetActiveConnections(tk_conns)
    /\ tk_last' = [op |-> "active", id |-> 0]
    /\ UNCHANGED <<tk_conns, tk_now, tk_next_id, tk_swept>>
    /\ UNCHANGED allButTk

\* start_cleanup: a tick of the 250 ms interval, conns.retain(...)
TkSweep ==
    /\ ~tk_swept
    /\ tk_swept' = TRUE
    /\ tk_conns' = SelectSeq(tk_conns, LAMBDA c : TkKeep(c, tk_now))
    /\ tk_last' = [op |-> "sweep", id |-> 0]
    /\ tk_active' = <<>>
    /\ UNCHANGED <<tk_now, tk_next_id>>
    /\ UNCHANGED allButTk

InitTkIdle ==
    /\ tk_conns = <<>>
    /\ tk_now = 0
    /\ tk_next_id = 0
    /\ tk_swept = FALSE
    /\ tk_last = NoCall
    /\ tk_active = <<>>

\* no tunnel request built, no HyperHttpClient::execute task
InitCxIdle ==
    /\ auth_for = [c \in Conns |-> None]
    /\ hx_pc = [c \in Conns |-> "off"]
    /\ hx_route = [c \in Conns |-> None]
    /\ hx_src = [c \in Conns |-> None]

InitAuxIdle ==
    InitPvIdle /\ InitNpIdle /\ InitTkIdle /\ InitEvIdle /\ InitCxIdle

Init == InitPac /\ InitDisp /\ InitDetIdle /\ InitCredIdle /\ InitAuxIdle

Next ==
    \/ Accept
    \/ HttpResolve
    \/ HttpCreds
    \/ HttpTrack
    \/ ReqwestExecute
    \/ HyperExecute
    \/ HyperCall
    \/ HyperExchange
    \/ HttpClose
    \/ ConnectResolve
    \/ ConnectCreds
    \/ ConnectTrack
    \/ EstablishTunnel
    \/ Sweep
    \/ \E c \in Conns :
          \/ DialAttempt(c)
          \/ DirectUpgrade(c)
          \/ DirectConnect(c)
          \/ UpstreamCall(c)
          \/ UpstreamNoAuthority(c)
          \/ UpstreamHandshake(c)
          \/ UpstreamUpgrade(c)
          \/ TunnelEnds(c)
          \/ TunnelClose(c)

Spec == Init /\ [][Next]_vars

\* ---- HyperConnector on its own: one caller, any resolver ----
\* set_route_for_uri, called for the URI of a request about to be sent
SetRouteForUri ==
    /\ dial[1] = NoDial
    /\ \E r \in Routes : route_cache' = [route_cache EXCEPT ![HttpKey] = r]
    /\ UNCHANGED <<envVars, connections, next_id, hpc, hreq, hconn, hroute,
                   hcreds, hstatus, resp, tpc, dial, events, via,
                   upstream_open>>
    /\ UNCHANGED <<conn_method, pacVars, detVars, credVars, auxVars>>

\* HyperConnector::call(uri): get_route_for_uri, then the routes to dial
\* (resolve_all_routes when none is cached)
ConnectorCall ==
    /\ dial[1] = NoDial
    /\ \E k \in UriKeys :
          /\ route_cache' = [route_cache EXCEPT ![k] = None]
          /\ dial' = [dial EXCEPT ![1] = DialStart(CallRoutes(k))]
    /\ UNCHANGED <<envVars, connections, next_id, hpc, hreq, hconn, hroute,
                   hcreds, hstatus, resp, tpc, events, via, upstream_open>>
    /\ UNCHANGED <<conn_method, pacVars, detVars, credVars, auxVars>>

\* the caller takes the stream or the error
ConnectorReturn ==
    /\ dial[1].result \notin {"pending", None}
    /\ dial' = [dial EXCEPT ![1] = NoDial]
    /\ UNCHANGED <<envVars, route_cache, connections, next_id, hpc, hreq,
                   hconn, hroute, hcreds, hstatus, resp, tpc, events, via,
                   upstream_open>>
    /\ UNCHANGED <<conn_method, pacVars, detVars, credVars, auxVars>>

\* ---- HyperHttpClient::execute called by concurrent handlers for requests
\* to the same URI ----
\* execute(request, route, credentials): build_hyper_request, then
\* connector.set_route_for_uri(hyper_req.uri(), route.clone())
HxExecute(c) ==
    /\ hx_pc[c] = "idle"
    /\ \E r \in DispRoutes :
          /\ hx_route' = [hx_route EXCEPT ![c] = r]
          /\ route_cache' = [route_cache EXCEPT ![HttpKey] = r]
    /\ hx_pc' = [hx_pc EXCEPT ![c] = "request"]
    /\ UNCHANGED <<envVars, connections, next_id, hpc, hreq, hconn, hroute,
                   hcreds, hstatus, resp, tpc, dial, events, via,
                   upstream_open>>
    /\ UNCHANGED <<conn_method, pacVars, detVars, credVars>>
    /\ UNCHANGED <<pvVars, npVars, tkVars, evVars, auth_for, hx_src>>

\* client.request(hyper_req) reaches HyperConnector::call(uri):
\* get_route_for_uri removes the entry of the URI, and without one the
\* connector calls resolve_all_routes, which may fail
HxCall(c) ==
    /\ hx_pc[c] = "request"
    /\ route_cache' = [route_cache EXCEPT ![HttpKey] = None]
    /\ hx_src' = [hx_src EXCEPT ![c] =
                    IF route_cache[HttpKey] # None THEN "cache" ELSE "resolver"]
    /\ \/ /\ dial' = [dial EXCEPT ![c] = DialStart(CallRoutes(HttpKey))]
          /\ hx_pc' = [hx_pc EXCEPT ![c] = "dial"]
       \/ /\ route_cache[HttpKey] = None
          /\ hx_pc' = [hx_pc EXCEPT ![c] = "failed"]
          /\ UNCHANGED dial
    /\ UNCHANGED <<envVars, connections, next_id, hpc, hreq, hconn, hroute,
                   hcreds, hstatus, resp, tpc, events, via, upstream_open>>
    /\ UNCHANGED <<conn_method, pacVars, detVars, credVars>>
    /\ UNCHANGED <<pvVars, npVars, tkVars, evVars, auth_for, hx_route>>

\* the connector call has returned a stream or an error to the client
HxReturn(c) ==
    /\ hx_pc[c] = "dial"
    /\ dial[c].result \notin {"pending", None}
    /\ hx_pc' = [hx_pc EXCEPT ![c] =
                   IF dial[c].result = "connected" THEN "sent" ELSE "failed"]
    /\ UNCHANGED <<dispVars, pacVars, detVars, credVars>>
    /\ UNCHANGED <<pvVars, npVars, tkVars, evVars, auth_for, hx_route, hx_src>>

InitHyperClients ==
    /\ InitPac
    /\ http_client = "hyper"
    /\ up \in SUBSET DispEndpoints
    /\ pac_routes \in RouteLists(DispRoutes, MaxRoutes)
    /\ InitDispState
    /\ InitDetIdle
    /\ InitCredIdle
    /\ InitPvIdle /\ InitNpIdle /\ InitTkIdle /\ InitEvIdle
    /\ auth_for = [c \in Conns |-> None]
    /\ hx_pc = [c \in Conns |-> "idle"]
    /\ hx_route = [c \in Conns |-> None]
    /\ hx_src = [c \in Conns |-> None]

NextHyperClients ==
    \E c \in Conns :
       \/ HxExecute(c)
       \/ HxCall(c)
       \/ DialAttempt(c)
       \/ HxReturn(c)

SpecHyperClients == InitHyperClients /\ [][NextHyperClients]_vars

InitDial ==
    /\ InitPac
    /\ http_client = "hyper"
    /\ up \in SUBSET Endpoints
    /\ pac_routes \in RouteLists(Routes, MaxDialRoutes)
    /\ InitDispState
    /\ InitDetIdle
    /\ InitCredIdle
    /\ InitAuxIdle

NextDial ==
    \/ SetRouteForUri
    \/ ConnectorCall
    \/ DialAttempt(1)
    \/ ConnectorReturn

SpecDial == InitDial /\ [][NextDial]_vars

\* the resolver on its own: the dispatcher is idle
InitPacOnly ==
    /\ InitPac
    /\ http_client = "reqwest"
    /\ up = {}
    /\ pac_routes = <<"Direct">>
    /\ InitDispState

NextPac ==
    \/ \E t \in Resolvers :
          \/ RStart(t)
          \/ RReadUrl(t)
          \/ RLookup(t)
          \/ RFetch(t)
          \/ RPut(t)
          \/ REvaluate(t)
          \/ RReturn(t)
    \/ \E u \in Updaters :
          \/ UStart(u)
          \/ UWriteUrl(u)
          \/ UClear(u)

InitPacSpec == InitPacOnly /\ InitDetIdle /\ InitCredIdle /\ InitAuxIdle

SpecPac == InitPacSpec /\ [][NextPac]_vars

\* ---- the resolver with its lock queue, under a fair scheduler ----
\* one task calling resolve_route, one calling resolve_all_routes and one
\* calling update_pac_url; every task that can run does run, a PAC fetch
\* ends, and a task waiting for the lock gets it once the lock stays free
LiveUpdater == "u1"

LiveKinds(t) == IF t = "r1" THEN {"route"} ELSE {"all"}

NextPacLive ==
    \/ \E t \in Resolvers :
          \/ RStartOf(t, LiveKinds(t))
          \/ RReadUrl(t)
          \/ RLookup(t)
          \/ RFetch(t)
          \/ RPut(t)
          \/ REvaluate(t)
          \/ RReturn(t)
    \/ UStart(LiveUpdater)
    \/ UQueue(LiveUpdater)
    \/ UWriteUrl(LiveUpdater)
    \/ UClear(LiveUpdater)

\* what every step of a call changes: its position
pacPcs == <<rpc, upc>>

FairPac ==
    /\ \A t \in Resolvers :
          WF_pacPcs(RReadUrl(t) \/ RLookup(t) \/ RFetch(t) \/ RPut(t)
                       \/ REvaluate(t))
    /\ WF_pacPcs(UQueue(LiveUpdater) \/ UWriteUrl(LiveUpdater)
                    \/ UClear(LiveUpdater))

SpecPacLive == InitPacSpec /\ [][NextPacLive]_vars /\ FairPac

\* ---- the detectors, each on its own with the resolver it updates ----
InitGateway ==
    /\ InitPacOnly
    /\ gw_rules \in RuleLists(GwRuleSet, MaxRules)
    /\ InitGw
    /\ InitRcIdle
    /\ InitBcIdle
    /\ InitCredIdle
    /\ InitAuxIdle

NextGateway ==
    \/ GwTick
    \/ GwDetect
    \/ GwRule
    \/ GwCompare
    \/ GwUpdated
    \/ UWriteUrl(DetTask)
    \/ UClear(DetTask)

SpecGateway == InitGateway /\ [][NextGateway]_vars

\* the gateway listener with rules that have commands, on a resolver port
\* whose update_pac_url may return an error
InitGatewayPort ==
    /\ InitPacOnly
    /\ gw_rules \in RuleLists(GwHookRuleSet, MaxRules)
    /\ InitGw
    /\ InitRcIdle
    /\ InitBcIdle
    /\ InitCredIdle
    /\ InitAuxIdle

NextGatewayPort ==
    \/ GwTick
    \/ GwDetect
    \/ GwRule
    \/ GwCompare
    \/ GwUpdated
    \/ GwUpdateFails
    \/ UWriteUrl(DetTask)
    \/ UClear(DetTask)

SpecGatewayPort == InitGatewayPort /\ [][NextGatewayPort]_vars

InitResolvConf ==
    /\ InitPacOnly
    /\ rc_rules \in RuleLists(RcRuleSet, MaxRules)
    /\ InitRc
    /\ InitGwIdle
    /\ InitBcIdle
    /\ InitCredIdle
    /\ InitAuxIdle

NextResolvConf ==
    \/ RcEvent
    \/ RcRead
    \/ RcNext
    \/ RcRule
    \/ RcMatched
    \/ RcAfter
    \/ RcCleared
    \/ UWriteUrl(DetTask)
    \/ UClear(DetTask)

SpecResolvConf == InitResolvConf /\ [][NextResolvConf]_vars

\* the resolv.conf listener with rules that have commands
InitResolvConfHooks ==
    /\ InitPacOnly
    /\ rc_rules \in RuleLists(RcHookRuleSet, MaxRules)
    /\ InitRc
    /\ InitGwIdle
    /\ InitBcIdle
    /\ InitCredIdle
    /\ InitAuxIdle

SpecResolvConfHooks == InitResolvConfHooks /\ [][NextResolvConf]_vars

\* the beacon poller, with one task resolving routes meanwhile
BcResolver == "r1"

InitBeacon ==
    /\ InitPacOnly
    /\ bc_rules \in RuleLists(BcRuleSet, MaxRules)
    /\ InitBc
    /\ InitGwIdle
    /\ InitRcIdle
    /\ InitCredIdle
    /\ InitAuxIdle

NextBeacon ==
    \/ BcTick
    \/ BcUpdated
    \/ UWriteUrl(BcTask)
    \/ UClear(BcTask)
    \/ RStart(BcResolver)
    \/ RReadUrl(BcResolver)
    \/ RLookup(BcResolver)
    \/ RFetch(BcResolver)
    \/ RPut(BcResolver)
    \/ REvaluate(BcResolver)
    \/ RReturn(BcResolver)

SpecBeacon == InitBeacon /\ [][NextBeacon]_vars

\* the gateway listener and the beacon poller started on the same resolver,
\* the gateway rules giving one PAC URL and the beacon rule another
InitDetectors ==
    /\ InitPacOnly
    /\ gw_rules \in RuleLists({r \in GwRuleSet :
                                  r.subnet = NoSubnet /\ r.pac = "pacA"},
                              MaxRules)
    /\ InitGw
    /\ bc_rules \in RuleLists({r \in BcRuleSet : r.pac = "pacB"}, 1)
    /\ InitBc
    /\ InitRcIdle
    /\ InitCredIdle
    /\ InitAuxIdle

NextDetectors ==
    \/ GwTick
    \/ GwDetect
    \/ GwRule
    \/ GwCompare
    \/ GwUpdated
    \/ BcTick
    \/ BcUpdated
    \/ \E u \in {DetTask, BcTask} :
          \/ UQueue(u)
          \/ UWriteUrl(u)
          \/ UClear(u)

SpecDetectors == InitDetectors /\ [][NextDetectors]_vars

\* ---- the credential lookup on its own ----
InitCreds ==
    /\ InitPacOnly
    /\ InitDetIdle
    /\ cr_rules \in SUBSET CredPatterns
    /\ InitCredState
    /\ InitAuxIdle

NextCreds ==
    \/ CrCall
    \/ CrCacheGet
    \/ CrFind
    \/ CrCachePut
    \/ CrReturn

SpecCreds == InitCreds /\ [][NextCreds]_vars

\* ---- find_credentials_for_host on its own, on any host ----
InitFind ==
    /\ InitPacOnly
    /\ InitDetIdle
    /\ cr_rules \in SUBSET FindPatterns
    /\ InitCredState
    /\ InitAuxIdle

NextFind ==
    \/ PvFindCall(FindTask)
    \/ PvFind(FindTask)
    \/ PvReturn(FindTask)

SpecFind == InitFind /\ [][NextFind]_vars

\* ---- the credential provider with two concurrent callers ----
InitProvider ==
    /\ InitPacOnly
    /\ InitDetIdle
    /\ cr_rules \in ProviderRules
    /\ InitCredState
    /\ InitAuxIdle

NextProvider ==
    \/ PvClearCache
    \/ \E t \in ProviderTasks :
          \/ PvGetCredentials(t)
          \/ PvCacheGet(t)
          \/ PvFind(t)
          \/ PvCachePut(t)
          \/ PvReturn(t)

SpecProvider == InitProvider /\ [][NextProvider]_vars

\* ---- CredentialProvider::new on any list of rules ----
InitNew ==
    /\ InitPacOnly
    /\ InitDetIdle
    /\ InitCredIdle
    /\ InitAuxIdle

NextNew ==
    \/ NpNew
    \/ NpRule
    \/ NpBuilt

SpecNew == InitNew /\ [][NextNew]_vars

\* ---- evaluate_pac and parse_proxy_route on any result string ----
InitEval ==
    /\ InitPacOnly
    /\ InitDetIdle
    /\ InitCredIdle
    /\ InitAuxIdle

NextEval ==
    \/ EvEvaluate
    \/ EvParse
    \/ EvParseOne
    \/ EvReturn

SpecEval == InitEval /\ [][NextEval]_vars

\* ---- the connection tracker on its own, with its clock ----
InitTrackerSpec ==
    /\ InitPacOnly
    /\ InitDetIdle
    /\ InitCredIdle
    /\ InitPvIdle
    /\ InitNpIdle
    /\ InitEvIdle
    /\ InitCxIdle
    /\ InitTracker

NextTracker ==
    \/ TkAdvance
    \/ TkTrack
    \/ TkClose
    \/ TkGetActive
    \/ TkSweep

SpecTracker == InitTrackerSpec /\ [][NextTracker]_vars



(***************************************************************************)
(* C1: a resolution never evaluates script text that was put in the cache  *)
(* before the last update_pac_url completed.  Every task that works on a   *)
(* PAC URL works on the active one, every cached script and every script   *)
(* being evaluated was stored after the last assignment of pac_url, the    *)
(* cache is empty from the end of an update to the first lookup after it,  *)
(* and that first lookup misses.                                           *)
(***************************************************************************)
C1_NoStaleScript ==
    /\ ~first_hit
    /\ \A t \in Resolvers :
          rpc[t] \in {"lookup", "fetch", "put", "evaluate"} =>
             /\ rurl[t] = pac_url
             /\ \A i \in DOMAIN pac_cache : pac_cache[i].epoch = epoch
    /\ \A t \in Resolvers : rpc[t] = "evaluate" => rtext[t].epoch = epoch
    /\ (epoch > 0 /\ ~looked /\ url_writer = None) => pac_cache = <<>>

\* an update cleared a populated cache and a resolution on the new URL has
\* missed the cache and is fetching
C1_Witness ==
    /\ cleared
    /\ epoch >= 2
    /\ looked
    /\ \E t \in Resolvers :
          rpc[t] = "fetch" /\ rurl[t] = pac_url /\ pac_cache = <<>>


(***************************************************************************)
(* Helpers of the claims below                                             *)
(***************************************************************************)
Count(s, e) == Cardinality({i \in DOMAIN s : s[i] = e})
Has(s, e) == Count(s, e) > 0
\* the handler of connection c has returned and the client has its reply
Replied(c) == resp[c].status # 0
\* the record of connection c in the tracker, if any, is open
Tracked(c) == \E i \in DOMAIN connections : connections[i].id = c

(***************************************************************************)
(* C2: in handle_http_request every connection passed to track_connection  *)
(* gets a close_connection call on every exit path, also when              *)
(* http_client.execute returns an error.  As a final result: once the      *)
(* handler of a plain request has returned, a tracked connection has been  *)
(* closed.                                                                 *)
(***************************************************************************)
C2_HttpTrackedIsClosed ==
    \A c \in Conns :
       (conn_method[c] = "http" /\ Replied(c) /\ Has(events[c], "track"))
          => Has(events[c], "close")

(***************************************************************************)
(* C3: for every CONNECT accepted by handle_connect_request, once the      *)
(* handler has returned and no tunnel task is left running,                *)
(* close_connection has been called exactly once for the connection, also  *)
(* when establish_tunnel returned an error before spawning the task.       *)
(***************************************************************************)
C3_ConnectClosedOnce ==
    \A c \in Conns :
       (/\ conn_method[c] = "connect"
        /\ Replied(c)
        /\ Has(events[c], "track")
        /\ tpc[c] \in {"none", "t_done"})
          => Count(events[c], "close") = 1

(***************************************************************************)
(* C4: a handle_http_request call whose execute succeeds makes exactly one *)
(* track_connection and one close_connection call for its connection,      *)
(* track before execute and close after it.                                *)
(***************************************************************************)
C4_TrackExecuteClose ==
    /\ \A c \in Conns :
          (conn_method[c] = "http" /\ resp[c].status \in Statuses) =>
             events[c] = <<"resolved", "track", "execute", "close">>
    /\ hpc = "http_close" => events[hconn] = <<"resolved", "track", "execute">>

\* a plain request was answered with the upstream's reply
C4_Witness ==
    \E c \in Conns :
       /\ conn_method[c] = "http"
       /\ resp[c] = [status |-> 200, body |-> "upstream"]
       /\ Tracked(c)

(***************************************************************************)
(* C5: for a CONNECT routed Upstream the client is sent 200 only after the *)
(* CONNECT session with the upstream proxy has been opened (connected,     *)
(* CONNECT sent, 2xx received).                                            *)
(***************************************************************************)
C5_OkOnlyAfterUpstreamOpen ==
    \A c \in Conns :
       (/\ conn_method[c] = "connect"
        /\ IsUpstream(Head(pac_routes))
        /\ resp[c].status = 200)
          => upstream_open[c]

(***************************************************************************)
(* C6: a plain request whose route list is [R1, R2], with R1 unreachable   *)
(* and R2 reachable, is answered with the reply obtained over R2.          *)
(***************************************************************************)
C6_HttpFailsOver ==
    \A c \in Conns :
       (/\ conn_method[c] = "http"
        /\ Len(pac_routes) = 2
        /\ pac_routes[1] # "Blocked"
        /\ EndpointOf(pac_routes[1]) \notin up
        /\ EndpointOf(pac_routes[2]) \in up
        /\ Has(events[c], "execute")
        /\ Replied(c))
          => (resp[c].status \in Statuses /\ via[c] = pac_routes[2])

(***************************************************************************)
(* C7: one connector call attempts the routes strictly in list order, each *)
(* at most once; the first successful connect is returned and no later     *)
(* route attempted; TimedOut is returned only after every route of the     *)
(* list has been attempted and has failed.                                 *)
(***************************************************************************)
C7_DialInOrder ==
    \A c \in Conns :
       LET d == dial[c]
       IN  d.result # None =>
              /\ \A i \in DOMAIN d.attempts : d.attempts[i] = i
              /\ Len(d.attempts) <= Len(d.routes)
              /\ \A i \in DOMAIN d.attempts :
                    i < Len(d.attempts) => EndpointOf(d.routes[i]) \notin up
              /\ d.result = "connected" =>
                    /\ Len(d.attempts) = d.idx
                    /\ EndpointOf(d.routes[d.idx]) \in up
              /\ d.result = "pending" => Len(d.attempts) = d.idx - 1
              /\ d.result = "TimedOut" =>
                    /\ Len(d.attempts) = Len(d.routes)
                    /\ \A i \in DOMAIN d.routes :
                          EndpointOf(d.routes[i]) \notin up

\* the second of three routes connected after the first failed, and the
\* third, reachable too, was not attempted
C7_Witness ==
    LET d == dial[1]
    IN  /\ d.result = "connected"
        /\ Len(d.routes) = 3
        /\ d.attempts = <<1, 2>>
        /\ EndpointOf(d.routes[3]) \in up

(***************************************************************************)
(* C8: a connector call that reaches a Blocked route returns               *)
(* PermissionDenied at once and attempts no later route.                   *)
(***************************************************************************)
C8_BlockedStopsDial ==
    \A c \in Conns :
       LET d == dial[c]
       IN  /\ (d.result # None /\ d.idx <= Len(d.routes)
                 /\ d.routes[d.idx] = "Blocked")
              => (d.result = "PermissionDenied" /\ Len(d.attempts) = d.idx - 1)
           /\ d.result # None =>
                 \A i \in DOMAIN d.attempts : d.routes[d.attempts[i]] # "Blocked"
           /\ d.result = "PermissionDenied" => d.routes[d.idx] = "Blocked"

\* the call stopped at a Blocked second route although the third is reachable
C8_Witness ==
    LET d == dial[1]
    IN  /\ d.result = "PermissionDenied"
        /\ Len(d.routes) = 3
        /\ d.idx = 2
        /\ d.attempts = <<1>>
        /\ EndpointOf(d.routes[3]) \in up

(***************************************************************************)
(* C9: when the route resolved for a CONNECT is Blocked, the request is    *)
(* rejected with 403 and an empty body, no connection record is tracked    *)
(* and no tunnel task is started.                                          *)
(***************************************************************************)
C9_BlockedConnectRejected ==
    \A c \in Conns :
       (/\ conn_method[c] = "connect"
        /\ Head(pac_routes) = "Blocked"
        /\ Has(events[c], "resolved"))
          => /\ resp[c] = [status |-> 403, body |-> "empty"]
             /\ events[c] = <<"resolved">>
             /\ ~Tracked(c)
             /\ tpc[c] = "none"
             /\ hconn # c

\* a CONNECT on a Blocked route was answered
C9_Witness ==
    \E c \in Conns :
       /\ conn_method[c] = "connect"
       /\ Head(pac_routes) = "Blocked"
       /\ resp[c].status = 403

(***************************************************************************)
(* C10: when the route resolved for a plain request is Blocked, the client *)
(* receives 403 Forbidden with no body.                                    *)
(***************************************************************************)
C10_BlockedHttpForbidden ==
    \A c \in Conns :
       (/\ conn_method[c] = "http"
        /\ Head(pac_routes) = "Blocked"
        /\ Has(events[c], "resolved")
        /\ Replied(c))
          => resp[c] = [status |-> 403, body |-> "empty"]

(***************************************************************************)
(* C11: when PAC resolution fails while a request is handled, the          *)
(* dispatcher falls back to the route list [Direct] and serves the request *)
(* directly: the request is not answered with an error because of it.      *)
(***************************************************************************)
C11_ResolutionFailureFallsBack ==
    \A c \in Conns :
       (Has(events[c], "resolve_failed") /\ Replied(c))
          => /\ resp[c].status # 500
             /\ Has(events[c], "track")

(***************************************************************************)
(* C12: while the active PAC URL is null, resolve_all_routes returns       *)
(* exactly [Direct] and resolve_route returns Direct, without fetching a   *)
(* script or touching the PAC cache: a call that read a null PAC URL holds *)
(* no script text, has made no cache hit and never enters the cache        *)
(* lookup, the fetch, the put or the evaluation.                           *)
(***************************************************************************)
C12_NullPacIsDirect ==
    \A t \in Resolvers :
       /\ (rpc[t] = "done" /\ rurl[t] = None) =>
             /\ rout[t] = <<"Direct">>
             /\ rtext[t] = NoText
             /\ ~rhit[t]
             /\ t \notin url_readers
       /\ rpc[t] \in {"lookup", "fetch", "put", "evaluate"} => rurl[t] # None

\* resolve_all_routes returned after update_pac_url(None) replaced a PAC URL
C12_Witness ==
    /\ epoch >= 2
    /\ pac_url = None
    /\ \E t \in Resolvers :
          rpc[t] = "done" /\ rkind[t] = "all" /\ rurl[t] = None
             /\ rout[t] = <<"Direct">>

(***************************************************************************)
(* C13: GatewayListener calls update_pac_url on a tick if and only if the  *)
(* PAC URL computed on that tick differs from the value it last pushed     *)
(* (null before the first push): the number of calls equals the number of  *)
(* changes of the computed PAC URL, the remembered value is the one last   *)
(* computed, and a call in progress carries a value that differs from it.  *)
(***************************************************************************)
C13_CallsEqualChanges ==
    /\ gw_calls = gw_changes
    /\ gw_calls <= gw_computed
    /\ gw_pc # "update" => gw_last = gw_prev
    /\ gw_pc = "update" => (gw_new = gw_prev /\ gw_new # gw_last)

\* three refreshes computed a PAC URL, the first pushed one and the two
\* after it computed the same and made no call
C13_Witness ==
    /\ gw_pc = "sleep"
    /\ gw_computed = 3
    /\ gw_calls = 1
    /\ gw_last # None
    /\ pac_url = gw_last

(***************************************************************************)
(* C14: on its initial run each detector makes exactly one update_pac_url  *)
(* call reflecting the startup context, whether or not a rule matches:     *)
(* once the first refresh of GatewayListener or of ResolvConfListener has  *)
(* returned without an error, exactly one call has been made.              *)
(***************************************************************************)
C14_InitialRunCallsOnce ==
    /\ (gw_pc = "sleep" /\ gw_ticks = 1 /\ gw_computed = 1) => gw_calls = 1
    /\ (rc_pc = "watch" /\ rc_events = 1 /\ ~rc_failed) => Len(rc_pushed) = 1

(***************************************************************************)
(* C15: BeaconPoller and ResolvConfListener remember the PAC URL they last *)
(* pushed and make no update_pac_url call on a tick or file-change event   *)
(* whose selected PAC URL equals the value pushed before: no call of       *)
(* either detector repeats the argument of its previous call.              *)
(***************************************************************************)
C15_NoRepeatedPush ==
    /\ ~bc_repeat
    /\ \A k \in DOMAIN rc_pushed :
          rc_pushed[k] # (IF k = 1 THEN rc_prev ELSE rc_pushed[k - 1])

(***************************************************************************)
(* Helpers: the first IPv4 nameserver of a configuration, the rules whose  *)
(* subnet contains an address                                              *)
(***************************************************************************)
V4Positions(ns) == {i \in DOMAIN ns : ns[i].v4}
HasV4(ns) == V4Positions(ns) # {}
FirstV4(ns) ==
    ns[CHOOSE i \in V4Positions(ns) : \A k \in V4Positions(ns) : i <= k].addr
RcMatching(addr) ==
    {j \in DOMAIN rc_rules :
        rc_rules[j].subnet.kind = "net" /\ NetContains(rc_rules[j].subnet, addr)}
RcRefreshed == rc_pc = "watch" /\ rc_events >= 1 /\ ~rc_failed

(***************************************************************************)
(* C16: ResolvConfListener evaluates its rules top to bottom and the first *)
(* match wins: after a refresh in which several rules contain the          *)
(* nameserver, the active PAC URL is that of the first of them.            *)
(***************************************************************************)
C16_FirstRuleWins ==
    (RcRefreshed /\ HasV4(rc_ns) /\ RcMatching(FirstV4(rc_ns)) # {}) =>
       LET M == RcMatching(FirstV4(rc_ns))
           first == CHOOSE j \in M : \A k \in M : j <= k
       IN  pac_url = rc_rules[first].pac

(***************************************************************************)
(* C17: ResolvConfListener decides on the first IPv4 nameserver only: when *)
(* no rule contains it, the PAC URL is null after the refresh, also when a *)
(* later nameserver lies in the subnet of a rule.                          *)
(***************************************************************************)
C17_FirstNameserverOnly ==
    (RcRefreshed /\ HasV4(rc_ns) /\ RcMatching(FirstV4(rc_ns)) = {}) =>
       pac_url = None

(***************************************************************************)
(* C18: in GatewayListener a rule matches iff the name of the default      *)
(* interface matches its glob and it has no interface_ip_subnet or one of  *)
(* the interface's IPv4 addresses lies in it; the computed PAC URL is that *)
(* of the first matching rule, null if there is none.                      *)
(***************************************************************************)
C18_GatewayFirstMatch ==
    gw_pc \in {"compare", "update"} =>
       LET M == {j \in DOMAIN gw_rules :
                    /\ GlobMatches(gw_rules[j].glob, gw_iface.name)
                    /\ \/ gw_rules[j].subnet.kind = "absent"
                       \/ /\ gw_rules[j].subnet.kind = "net"
                          /\ \E ip \in gw_iface.ipv4 :
                                NetContains(gw_rules[j].subnet, ip)}
       IN  IF M = {}
           THEN gw_new = None /\ gw_matched = 0
           ELSE /\ gw_matched = (CHOOSE j \in M : \A k \in M : j <= k)
                /\ gw_new = gw_rules[gw_matched].pac

\* the first rule fits the interface name but not its addresses, the second
\* rule matches and gives another PAC URL
C18_Witness ==
    /\ gw_pc = "compare"
    /\ gw_matched = 2
    /\ GlobMatches(gw_rules[1].glob, gw_iface.name)
    /\ gw_rules[1].subnet.kind = "net"
    /\ gw_iface.ipv4 # {}
    /\ gw_rules[1].pac # gw_rules[2].pac
    /\ gw_new = gw_rules[2].pac

(***************************************************************************)
(* C19: get_credentials_for_route returns None for a Direct and a Blocked  *)
(* route without consulting the credential provider; for an Upstream route *)
(* it returns the provider's lookup keyed on the host of the proxy URL,    *)
(* never on the target's host.                                             *)
(***************************************************************************)
C19_CredentialsKeyedOnProxyHost ==
    /\ cr_pc # "idle" =>
          IF cr_route.kind = "Upstream"
          THEN /\ cr_asked = <<cr_route.proxy>>
               /\ cr_host = cr_route.proxy
               /\ cr_tried # <<>> => cr_tried[1] = cr_route.proxy
               /\ cr_result \in cr_rules \cup {NoCreds}
          ELSE /\ cr_pc = "done"
               /\ cr_result = NoCreds
               /\ cr_asked = <<>>
               /\ cr_tried = <<>>
    /\ \A i \in DOMAIN cr_cache : cr_cache[i].key \in CredProxyHosts

\* credentials were found for an Upstream route although the target's host
\* has a rule of its own
C19_Witness ==
    /\ cr_pc = "done"
    /\ cr_route.kind = "Upstream"
    /\ cr_result # NoCreds
    /\ cr_result # TargetHost
    /\ TargetHost \in cr_rules

(***************************************************************************)
(* C20: for host a.b.example.net with no exact rule the credential lookup  *)
(* falls back to b.example.net, then example.net, then net, and returns    *)
(* the credentials of the first of these that has a rule.                  *)
(***************************************************************************)
C20_SuffixFallback ==
    (/\ cr_pc = "done"
     /\ cr_route.kind = "Upstream"
     /\ cr_route.proxy = HostABExampleNet
     /\ HostABExampleNet \notin cr_rules)
       => cr_result =
             (IF HostBExampleNet \in cr_rules THEN HostBExampleNet
              ELSE IF HostExampleNet \in cr_rules THEN HostExampleNet
              ELSE IF HostNet \in cr_rules THEN HostNet
              ELSE NoCreds)

(***************************************************************************)
(* C21: a credential rule with pattern .example.net yields credentials for *)
(* host a.example.net (by suffix descent) but not for host example.net; a  *)
(* rule whose pattern equals the host is an exact match.                   *)
(***************************************************************************)
C21_DotPatternMatchesSubdomains ==
    (cr_pc = "done" /\ cr_route.kind = "Upstream") =>
       /\ cr_route.proxy \in cr_rules => cr_result = cr_route.proxy
       /\ (/\ cr_route.proxy = HostAExampleNet
           /\ HostAExampleNet \notin cr_rules
           /\ HostDotExampleNet \in cr_rules)
             => cr_result = HostDotExampleNet
       /\ (cr_route.proxy = HostExampleNet /\ HostExampleNet \notin cr_rules)
             => cr_result = NoCreds

\* the rule .example.net gave the credentials for a.example.net, looked up
\* and not taken from the cache
C21_Witness ==
    /\ cr_pc = "done"
    /\ cr_route.proxy = HostAExampleNet
    /\ cr_rules = {HostDotExampleNet}
    /\ cr_result = HostDotExampleNet
    /\ cr_tried = <<HostAExampleNet, HostDotExampleNet>>

\* ---------------------------------------------------------------------------
\* C22: find_credentials_for_host terminates for every host: the first call
\* is on the host, every recursive call is on a strictly shorter, non-empty
\* suffix of the host of the call before, so there are no more calls than the
\* host is long; otherwise it returns None, and the empty host returns None.
IsSuffix(s, h) ==
    Len(s) <= Len(h) /\ s = SubSeq(h, Len(h) - Len(s) + 1, Len(h))

C22_FindTerminates ==
    LET tr == pv_tried[FindTask]
        calls == IF pv_pc[FindTask] = "find"
                 THEN Append(tr, pv_key[FindTask]) ELSE tr
    IN  pv_via[FindTask] = "find" =>
           /\ calls[1] = pv_host[FindTask]
           /\ \A i \in 2 .. Len(calls) :
                 /\ calls[i] # <<>>
                 /\ Len(calls[i]) < Len(calls[i - 1])
                 /\ IsSuffix(calls[i], calls[i - 1])
           /\ Len(calls) <= IF pv_host[FindTask] = <<>> THEN 1
                            ELSE Len(pv_host[FindTask])
           /\ (pv_pc[FindTask] = "done" /\ pv_host[FindTask] = <<>>)
                 => pv_result[FindTask] = NoCreds
           /\ (pv_pc[FindTask] = "done"
               /\ pv_tried[FindTask][Len(tr)] \notin cr_rules)
                 => pv_result[FindTask] = NoCreds

C22_Witness ==
    /\ pv_via[FindTask] = "find"
    /\ pv_pc[FindTask] = "done"
    /\ pv_host[FindTask] = <<"a", Dot, "b", Dot>>
    /\ pv_tried[FindTask] = <<pv_host[FindTask], <<Dot, "b", Dot>>, <<Dot>>>>
    /\ pv_result[FindTask] = NoCreds

\* ---------------------------------------------------------------------------
\* C23: with fixed rules, under any interleaving of get_credentials and
\* clear_cache calls, get_credentials(host) returns what the uncached
\* find_credentials_for_host(host) returns: every cache entry holds the
\* uncached result of its key, whatever hits, misses, concurrent writes on a
\* miss and evictions (capacity 5) happened.
C23_CachedEqualsUncached ==
    /\ \A t \in ProviderTasks :
          (pv_via[t] = "get_credentials" /\ pv_pc[t] = "done") =>
             pv_result[t] = FindCredentialsForHost(cr_rules, pv_host[t])
    /\ \A i \in DOMAIN cr_cache :
          cr_cache[i].value = FindCredentialsForHost(cr_rules, cr_cache[i].key)
    /\ Len(cr_cache) <= CredCacheCap

C23_Witness ==
    /\ Len(cr_cache) = CredCacheCap
    /\ cr_cache[1].key = HostH3
    /\ \A i \in DOMAIN cr_cache : cr_cache[i].key # HostAExampleNet
    /\ pv_pc["p1"] = "done" /\ pv_host["p1"] = HostH3
    /\ pv_pc["p2"] = "done" /\ pv_host["p2"] = HostAExampleNet
    /\ pv_result["p2"] = HostDotExampleNet

\* ---------------------------------------------------------------------------
\* C24: CredentialProvider::new panics, and no provider is constructed, when
\* the password command of some rule cannot be run, gives no valid output, or
\* gives nothing but trailing whitespace; it returns a provider only when
\* every rule has a non-empty password, which its map then holds.
EmptyPassword(rule) ==
    \/ rule.command.kind # "ok"
    \/ \A i \in DOMAIN rule.command.out : rule.command.out[i] \in Whitespace

C24_EmptyPasswordPanics ==
    /\ np_state = "panicked" =>
          /\ EmptyPassword(np_rules[np_idx])
          /\ \A i \in 1 .. np_idx - 1 : ~EmptyPassword(np_rules[i])
    /\ np_state = "ready" =>
          /\ \A i \in DOMAIN np_rules : ~EmptyPassword(np_rules[i])
          /\ \A i \in DOMAIN np_rules :
                \E e \in np_map : /\ e.pattern = np_rules[i].remote_pattern
                                  /\ e.password # <<>>
          /\ \A e \in np_map : e.password # <<>>
    /\ (np_state = "building" /\ np_idx > Len(np_rules)) =>
          \A i \in DOMAIN np_rules : ~EmptyPassword(np_rules[i])

C24_Witness ==
    /\ np_state = "panicked"
    /\ np_idx = 2
    /\ np_rules[1].command = [kind |-> "ok", out |-> <<"x", "\n">>]
    /\ np_rules[2].command = [kind |-> "ok", out |-> <<"\n">>]

\* ---------------------------------------------------------------------------
\* C25: close_connection(id) for an id the tracker does not hold, because it
\* was never tracked or because the sweep already evicted it, leaves the
\* tracker's records as they were.
TkHas(conns, id) == \E i \in DOMAIN conns : conns[i].id = id

C25_CloseUnknownIsNoOp ==
    [][(tk_last'.op = "close" /\ ~TkHas(tk_conns, tk_last'.id))
          => tk_conns' = tk_conns]_vars

C25_Witness ==
    /\ tk_last.op = "close"
    /\ ~TkHas(tk_conns, tk_last.id)
    /\ tk_last.id <= tk_next_id
    /\ tk_conns # <<>>
    /\ tk_conns[1].closed_at = NotClosed

\* ---------------------------------------------------------------------------
\* C26: close_connection is idempotent: a second close_connection(id) on a
\* record that is already closed leaves the tracker as it was, closed_at of
\* the record included.
C26_CloseIdempotent ==
    [][(/\ tk_last'.op = "close"
        /\ \E i \in DOMAIN tk_conns : /\ tk_conns[i].id = tk_last'.id
                                      /\ tk_conns[i].closed_at # NotClosed)
          => tk_conns' = tk_conns]_vars

\* ---------------------------------------------------------------------------
\* C27: a record leaves the tracker only in a sweep, and only if it is closed
\* and at least 4 s have passed since its closed_at; an open record is never
\* evicted; until then a closed record stays in the list, and
\* get_active_connections returns exactly the open records.
C27_EvictionOnlyBySweep ==
    /\ [][\A i \in DOMAIN tk_conns :
             ~TkHas(tk_conns', tk_conns[i].id) =>
                /\ tk_last'.op = "sweep"
                /\ tk_conns[i].closed_at # NotClosed
                /\ (tk_now - tk_conns[i].closed_at) * SweepPeriodMs
                      >= RetentionSecs * 1000]_vars
    /\ [](tk_last.op = "active" =>
             /\ \A i \in DOMAIN tk_active : tk_active[i].closed_at = NotClosed
             /\ {tk_active[i] : i \in DOMAIN tk_active}
                   = {tk_conns[i] : i \in {k \in DOMAIN tk_conns :
                                      tk_conns[k].closed_at = NotClosed}}
             /\ Len(tk_active) <= Len(tk_conns))

C27_Witness ==
    /\ tk_last.op = "sweep"
    /\ tk_now * SweepPeriodMs = RetentionSecs * 1000
    /\ tk_next_id = 2
    /\ Len(tk_conns) = 1
    /\ tk_conns[1].id = 2
    /\ tk_conns[1].closed_at # NotClosed

\* ---------------------------------------------------------------------------
\* C28: evaluate_pac splits the string FindProxyForURL returned on ';', trims
\* the items and drops the empty ones, and maps each remaining item, in
\* order, to direct:// (first token DIRECT, PROXY without a host, or any
\* other token) or http://host:port (PROXY host:port): one element per
\* non-empty item, [direct://] when there is none, never the empty list.
C28_ResultParsing ==
    ev_pc = "evaluated" =>
       /\ ev_urls # <<>>
       /\ ev_urls = PacUrlsOf(ev_input)

\* C28 as amended: the same, of the string FindProxyForURL returned with all
\* its double quotes removed.  Stated on the positions of the string: the
\* items are the stretches between semicolons that hold a word, the tokens of
\* an item are its runs of words.
PacUnquoted == SelectSeq(ev_input, LAMBDA a : a # Quote)
SemisBefore(s, i) == Cardinality({j \in 1 .. i - 1 : s[j] = Semi})
WordPositions(s) == {i \in DOMAIN s : s[i] \in PacWords}
NonEmptyItems(s) == {SemisBefore(s, i) : i \in WordPositions(s)}
ItemRank(s, g) == Cardinality({h \in NonEmptyItems(s) : h < g}) + 1
TokenStarts(s, g) ==
    {i \in WordPositions(s) :
        SemisBefore(s, i) = g /\ (i = 1 \/ s[i - 1] \notin PacWords)}
TokenAt(s, i) ==
    LET e == CHOOSE k \in i .. Len(s) :
                /\ \A j \in i .. k : s[j] \in PacWords
                /\ k = Len(s) \/ s[k + 1] \notin PacWords
    IN  SubSeq(s, i, e)
NthToken(s, g, n) ==
    TokenAt(s, CHOOSE i \in TokenStarts(s, g) :
                  Cardinality({j \in TokenStarts(s, g) : j < i}) = n - 1)
ExpectedUrl(s, g) ==
    IF NthToken(s, g, 1) = <<"PROXY">> /\ Cardinality(TokenStarts(s, g)) >= 2
    THEN [scheme |-> "http", rest |-> NthToken(s, g, 2)]
    ELSE [scheme |-> "direct", rest |-> <<>>]

C28_ResultParsingUnquoted ==
    ev_pc = "evaluated" =>
       LET s == PacUnquoted
       IN  /\ ev_urls # <<>>
           /\ NonEmptyItems(s) = {}
                 => ev_urls = <<[scheme |-> "direct", rest |-> <<>>]>>
           /\ NonEmptyItems(s) # {} =>
                 /\ Len(ev_urls) = Cardinality(NonEmptyItems(s))
                 /\ \A g \in NonEmptyItems(s) :
                       ev_urls[ItemRank(s, g)] = ExpectedUrl(s, g)

C28_Witness ==
    /\ ev_pc = "evaluated"
    /\ ev_input = <<Quote, "PROXY", Quote, Space, "p1:80">>
    /\ ev_urls = <<HttpUrl(<<"p1:80">>)>>

\* ---------------------------------------------------------------------------
\* C30: parse_proxy_route gives Direct for direct://, Upstream for an http or
\* https URL and the InvalidUri error for any other scheme; so the routes
\* resolve_with_pac returns are Direct or Upstream ones, never Blocked.
C30_NeverBlocked ==
    /\ ev_pc = "one" =>
          LET u == ev_urls[1]
              r == ev_routes.routes[1]
          IN  /\ u = DirectUrl => r = RouteDirect
              /\ (u.scheme \in {"http", "https"} /\ UrlParses(u))
                    => r = RouteUpstream(u)
              /\ u.scheme \notin {"direct", "http", "https"}
                    => r = ErrInvalidUri /\ ~ev_routes.ok
              /\ r.kind # "Blocked"
    /\ ev_pc = "parsed" =>
          /\ \A i \in DOMAIN ev_routes.routes :
                ev_routes.routes[i].kind \in {"Direct", "Upstream"}
          /\ ev_routes.ok => Len(ev_routes.routes) = Len(ev_urls)
          /\ ev_routes.ok => ev_routes.routes # <<>>

C30_Witness ==
    /\ ev_pc = "parsed"
    /\ ev_input = <<"PROXY", Space, "p1:80", Semi, "DIRECT">>
    /\ ev_routes.ok
    /\ ev_routes.routes = <<RouteUpstream(HttpUrl(<<"p1:80">>)), RouteDirect>>

\* ---------------------------------------------------------------------------
\* C29: concurrent resolve_route, resolve_all_routes and update_pac_url calls
\* cannot deadlock: a task holding a guard of the pac_url lock never waits
\* (its next step can always be taken), so no task waits for a lock held by
\* a task that waits; and with every PAC fetch ending, every call returns.
C29_NoDeadlock ==
    /\ [](\A t \in url_readers :
             ENABLED (RLookup(t) \/ RFetch(t) \/ RPut(t) \/ REvaluate(t)))
    /\ [](url_writer # None => ENABLED UClear(url_writer))
    /\ \A t \in Resolvers :
          (rpc[t] \notin {"idle", "done"}) ~> (rpc[t] = "done")
    /\ \A u \in Updaters : (upc[u] # "idle") ~> (upc[u] = "idle")

C29_Witness ==
    /\ url_readers = {"r1"}
    /\ rpc["r1"] = "fetch"
    /\ upc[LiveUpdater] = "waiting"
    /\ rpc["r2"] = "read_url"

(***************************************************************************)
(* C31: when a GatewayListener refresh has changed the PAC URL (its         *)
(* update_pac_url call for a PAC URL other than the remembered one has      *)
(* returned Ok), the commands it has run are exactly the when_match of the  *)
(* matched rule, if that rule has one, or, without a matched rule, the      *)
(* when_no_match of every rule that has one; a refresh that ends without    *)
(* changing the PAC URL has run no command.                                 *)
(***************************************************************************)
C31_HooksOnChange ==
    [][(gw_pc # "sleep" /\ gw_pc' = "sleep") =>
          LET changed == gw_pc = "update" /\ gw_new # gw_last
              WithMatch == {c \in {<<gw_matched, "when_match">>} :
                               gw_rules[gw_matched].when_match # NoCmd}
              WithoutMatch == {<<j, "when_no_match">> :
                                 j \in {k \in DOMAIN gw_rules :
                                          gw_rules[k].when_no_match # NoCmd}}
          IN  gw_ran' = IF ~changed THEN {}
                        ELSE IF gw_matched # 0 THEN WithMatch
                        ELSE WithoutMatch]_vars

\* a refresh after the first found no matching rule any more, cleared the PAC
\* URL and ran the when_no_match commands of both rules
C31_Witness ==
    /\ gw_pc = "sleep"
    /\ gw_ticks >= 2
    /\ gw_last = None
    /\ pac_url = None
    /\ epoch = 2
    /\ gw_ran = {<<1, "when_no_match">>, <<2, "when_no_match">>}
    /\ gw_rules[1].when_match # NoCmd

(***************************************************************************)
(* C38: when update_pac_url returns an error to a GatewayListener refresh,  *)
(* last_pac_url keeps its value, no when_match or when_no_match command is  *)
(* run and the task goes on to its next sleep; a following refresh that     *)
(* computes the same PAC URL calls update_pac_url again.                    *)
(***************************************************************************)
C38_FailedUpdateRetried ==
    [][/\ (gw_pc = "compare" /\ gw_pc' = "sleep" /\ gw_failed' # NoFail) =>
             /\ gw_failed' = gw_new
             /\ gw_last' = gw_last
             /\ gw_new # gw_last
             /\ gw_ran' = {}
       /\ (gw_pc = "compare" /\ gw_pc' # "compare" /\ gw_failed = gw_new) =>
             gw_calls' = gw_calls + 1]_vars

\* the update of one refresh failed and the next refresh, computing the same
\* PAC URL, has made the call again
C38_Witness ==
    /\ gw_pc = "update"
    /\ gw_failed = gw_new
    /\ gw_new = "pacA"
    /\ gw_ticks >= 1
    /\ upc[DetTask] = "write_url"
    /\ uarg[DetTask] = "pacA"

(***************************************************************************)
(* C32: ResolvConfListener runs when_match / when_no_match commands only   *)
(* on a refresh that selects another PAC URL than the previous refresh: a  *)
(* refresh whose last update_pac_url call repeats the argument of the call *)
(* before it has run no command.                                           *)
(***************************************************************************)
C32_HooksOnlyOnChange ==
    (RcRefreshed /\ rc_pushed # <<>> /\ rc_pushed[Len(rc_pushed)] = rc_prev) =>
       rc_ran = <<>>

(***************************************************************************)
(* C33: in a ResolvConfListener refresh when_no_match commands are run     *)
(* only if no rule matched, and then the one of every rule that has one;   *)
(* in a refresh in which a rule matched, the only command run is the       *)
(* when_match of a rule that matched, and no when_no_match is run.         *)
(***************************************************************************)
C33_NoMatchHooksOnlyWithoutMatch ==
    RcRefreshed =>
       LET ran == {rc_ran[k] : k \in DOMAIN rc_ran}
       IN  IF rc_matched
           THEN /\ \A c \in ran : c[2] = "when_match"
                /\ Cardinality(ran) <= 1
           ELSE ran = {<<j, "when_no_match">> :
                          j \in {k \in DOMAIN rc_rules :
                                   rc_rules[k].when_no_match # NoCmd}}

(***************************************************************************)
(* C34: whenever no update_pac_url call is between its write of the PAC    *)
(* URL and its cache.clear(), the PAC cache holds at most one entry, the   *)
(* key of that entry is the active PAC URL and its text was stored after   *)
(* the last update: text fetched for an earlier PAC URL neither survives   *)
(* an update nor is inserted after it.                                     *)
(***************************************************************************)
C34_CacheHoldsActiveUrlOnly ==
    url_writer = None =>
       /\ Len(pac_cache) <= 1
       /\ \A i \in DOMAIN pac_cache :
             /\ pac_cache[i].key = pac_url
             /\ pac_cache[i].epoch = epoch

\* after a second update the cache holds the script of the new PAC URL, put
\* there by a resolution that ran after the update
C34_Witness ==
    /\ epoch >= 2
    /\ cleared
    /\ url_writer = None
    /\ \A u \in Updaters : upc[u] = "idle"
    /\ Len(pac_cache) = 1
    /\ pac_cache[1].key = pac_url

(***************************************************************************)
(* C37: a resolution whose PAC download fails returns ResolutionFailed and *)
(* leaves the PAC cache and the active PAC URL as they were; nothing is    *)
(* cached for the failure, and any lookup that does not find the PAC URL   *)
(* in the cache goes on to download the script again.                      *)
(***************************************************************************)
C37_FetchFailureNotCached ==
    [][\A t \in Resolvers :
          /\ (rpc[t] = "fetch" /\ rpc'[t] = "done") =>
                /\ rout'[t] = <<"ResolutionFailed">>
                /\ pac_cache' = pac_cache
                /\ pac_url' = pac_url
          /\ (rpc[t] = "lookup" /\ rpc'[t] # "lookup"
                 /\ ~LruContains(pac_cache, rurl[t])) =>
                rpc'[t] = "fetch"]_vars

\* the download of one resolution has failed, the PAC URL is still the same
\* and not in the cache, and another resolution under it is downloading
C37_Witness ==
    \E t, r \in Resolvers :
       /\ rpc[t] = "done"
       /\ rout[t] = <<"ResolutionFailed">>
       /\ rurl[t] = pac_url
       /\ rpc[r] = "fetch"
       /\ rurl[r] = pac_url
       /\ ~LruContains(pac_cache, pac_url)

(***************************************************************************)
(* C39: when a GatewayListener refresh that computed a PAC URL ends while  *)
(* no other detector's update_pac_url call is in progress, the active PAC  *)
(* URL of the resolver is the PAC URL that refresh computed, also when     *)
(* another detector has called update_pac_url since the previous refresh.  *)
(***************************************************************************)
C39_GatewayUrlInForce ==
    [][(/\ gw_pc \in {"compare", "update"}
        /\ gw_pc' = "sleep"
        /\ bc_pc \in {"off", "wait"}
        /\ upc[BcTask] = "idle")
          => pac_url' = gw_new]_vars

(***************************************************************************)
(* C39 as amended: whenever the GatewayListener is not inside an update    *)
(* its remembered last_pac_url is the PAC URL it computed last, and when   *)
(* no update_pac_url call is in progress the active PAC URL of the         *)
(* resolver is the value last pushed by the gateway or the value last      *)
(* pushed by the other detector (the gateway's as long as the other has    *)
(* pushed nothing).                                                        *)
(***************************************************************************)
C39_LastWriterWins ==
    /\ gw_pc # "update" => gw_last = gw_prev
    /\ (gw_pc # "update" /\ \A u \in Updaters : upc[u] = "idle") =>
          /\ pac_url \in {gw_last, bc_last}
          /\ bc_ticks = 0 => pac_url = gw_last

\* the gateway pushed its PAC URL, the beacon poller then pushed another one,
\* and two later gateway refreshes have ended without a call: the resolver
\* stays on the beacon's PAC URL
C39_Witness ==
    /\ gw_pc = "sleep"
    /\ gw_ticks = 3
    /\ gw_computed = 3
    /\ gw_calls = 1
    /\ gw_last = "pacA"
    /\ bc_pc = "wait"
    /\ bc_last = "pacB"
    /\ \A u \in Updaters : upc[u] = "idle"
    /\ pac_url = "pacB"

(***************************************************************************)
(* C35: the CONNECT request of an Upstream tunnel that carries a           *)
(* Proxy-Authorization header is only ever sent over a connection to the   *)
(* proxy its credentials were looked up for, whatever the connector's own  *)
(* resolution and failover dial.                                           *)
(***************************************************************************)
C35_CredentialsOnlyToTheirProxy ==
    \A c \in Conns :
       (auth_for[c] # None /\ conn_method[c] = "connect" /\ via[c] # None) =>
          EndpointOf(via[c]) = EndpointOf(auth_for[c])

(***************************************************************************)
(* C36: when two HyperHttpClient::execute calls for the same URI run       *)
(* concurrently with different routes, the connector call of each takes    *)
(* the route from the entry set for it: it dials exactly that route and    *)
(* never resolves the routes itself.                                       *)
(***************************************************************************)
C36_EachDialsItsOwnRoute ==
    (/\ \A c \in Conns : hx_route[c] # None
     /\ hx_route[1] # hx_route[2])
       => \A c \in Conns :
             hx_pc[c] \in {"dial", "sent", "failed"} =>
                /\ hx_src[c] = "cache"
                /\ dial[c].routes = <<hx_route[c]>>

====
